---- MODULE Spec2Model ----
(***************************************************************************)
(* mpx-api: template interpolation, assertion engine and collection runner *)
(*                                                                         *)
(* Strings are sequences of tokens.  A token is a fixed, non-empty piece   *)
(* of text; "{", "}", ".", "[", "]", " " and the line feed are tokens of   *)
(* one character and no other token contains one of these characters,     *)
(* except the token "[object Object]", which only ever occurs as inserted  *)
(* text.  All text of the model is built from the tokens named below, so   *)
(* two token sequences are the same JavaScript string iff they are equal.  *)
(***************************************************************************)
EXTENDS Integers, Sequences, FiniteSets, TLC

VARIABLES
    \* ---- template.js exercised on its own
    text,       \* the string handed to interpolate
    segs,       \* the pieces text was assembled from
    ctx,        \* the context handed to interpolate
    out,        \* interpolate(text, ctx)
    out2,       \* interpolate(out, ctx)
    tpc,        \* "in" | "once" | "twice"
    \* ---- the process
    penv,       \* process.env: a function from variable names to values
    \* ---- one runCollection call
    collection, \* the collection argument
    options,    \* the options argument: [env, baseUrl]
    idx,        \* position of the for-of loop in collection.requests
    pc,         \* "loop" | "await" | "done" | "off"
    context,    \* const context = { env }
    results,    \* const results = []
    interpolated, \* const interpolated, of the request of the current round
    sent,       \* every call made to client.request, in order
    replies,    \* what became of each round of the loop, in order
    \* ---- assertion.js exercised on its own
    aresp,      \* the response handed to runAssertions
    amap,       \* the assertion map handed to runAssertions
    aout,       \* what runAssertions did: [threw, results]
    apc,        \* "in" | "ran"
    \* ---- one function exercised on its own
    fargs,      \* the arguments of the call
    fret,       \* what the call returned
    fpc,        \* "in" | "ran"
    \* ---- two calls of runCollection in progress at once
    runs,       \* for each call, where it is: collection, idx, pc, results, ...
    heap        \* the context objects the calls have created, by address

vars == <<text, segs, ctx, out, out2, tpc, penv, collection, options, idx, pc,
          context, results, interpolated, sent, replies, aresp, amap, aout, apc,
          fargs, fret, fpc, runs, heap>>

tplVars == <<text, segs, ctx, out, out2, tpc>>
runVars == <<collection, options, idx, pc, context, results, interpolated, sent, replies>>
asrtVars == <<aresp, amap, aout, apc>>
funVars == <<fargs, fret, fpc>>
concVars == <<runs, heap>>

-----------------------------------------------------------------------------
(* JavaScript values *)

Undef == [t |-> "undef"]
Null == [t |-> "null"]
Num(n) == [t |-> "num", v |-> n]
Str(s) == [t |-> "str", v |-> s]
Bool(b) == [t |-> "bool", v |-> b]
Arr(s) == [t |-> "arr", v |-> s]
\* an object is the sequence of its <<key, value>> entries in insertion order;
\* a key is a string (a token sequence)
Obj(s) == [t |-> "obj", v |-> s]

K(tok) == <<tok>>

\* F(e), with e evaluated once: const v = e; return F(v)
Const(e, F(_)) == CHOOSE r \in { F(v) : v \in {e} } : TRUE
S(tok) == Str(<<tok>>)

\* ToBoolean
Truthy(x) ==
    CASE x.t = "undef" -> FALSE
      [] x.t = "null" -> FALSE
      [] x.t = "num" -> x.v # 0
      [] x.t = "str" -> x.v # <<>>
      [] x.t = "bool" -> x.v
      [] OTHER -> TRUE

IsArray(x) == x.t = "arr"

DigitTok == {"0", "1", "5"}

DigitVal(tok) == CHOOSE n \in 0..9 : ToString(n) = tok

IsDigits(s) == Len(s) >= 1 /\ \A i \in 1..Len(s) : s[i] \in DigitTok

\* parseInt of a string of digits
RECURSIVE ParseInt(_)
ParseInt(s) ==
    IF s = <<>> THEN 0
    ELSE 10 * ParseInt(SubSeq(s, 1, Len(s) - 1)) + DigitVal(s[Len(s)])

\* number of characters of a string
RECURSIVE CharLen(_)
CharLen(s) == IF s = <<>> THEN 0 ELSE Len(Head(s)) + CharLen(Tail(s))

HasKey(o, key) == \E i \in 1..Len(o.v) : o.v[i][1] = key

KeyIndex(o, key) == CHOOSE i \in 1..Len(o.v) : o.v[i][1] = key

\* current[key] for a current that is neither null nor undefined.  Own
\* properties only: members inherited from a prototype, and the characters of
\* a string, are not looked up by any path of the model.
GetProp(x, key) ==
    CASE x.t = "obj" -> IF HasKey(x, key) THEN x.v[KeyIndex(x, key)][2] ELSE Undef
      [] x.t = "arr" ->
            IF key = K("length") THEN Num(Len(x.v))
            ELSE IF IsDigits(key) /\ ParseInt(key) < Len(x.v) /\ (Len(key) = 1 \/ key[1] # "0")
                 THEN x.v[ParseInt(key) + 1]
                 ELSE Undef
      [] x.t = "str" -> IF key = K("length") THEN Num(CharLen(x.v)) ELSE Undef
      [] OTHER -> Undef

\* obj[key] = val
SetProp(o, key, val) ==
    IF HasKey(o, key)
    THEN Obj([o.v EXCEPT ![KeyIndex(o, key)] = <<key, val>>])
    ELSE Obj(Append(o.v, <<key, val>>))

Keys(o) == {o.v[i][1] : i \in 1..Len(o.v)}

\* String(value), as String.prototype.replace applies it to what the replacer
\* returns and Array.prototype.join to the elements of an array
RECURSIVE ToText(_)
RECURSIVE JoinFrom(_, _)
JoinFrom(s, i) ==
    IF i > Len(s) THEN <<>>
    ELSE (IF i > 1 THEN <<",">> ELSE <<>>)
         \o (IF s[i].t \in {"undef", "null"} THEN <<>> ELSE ToText(s[i]))
         \o JoinFrom(s, i + 1)
ToText(x) ==
    CASE x.t = "undef" -> <<"undefined">>
      [] x.t = "null" -> <<"null">>
      [] x.t = "num" -> <<ToString(x.v)>>
      [] x.t = "str" -> x.v
      [] x.t = "bool" -> IF x.v THEN <<"true">> ELSE <<"false">>
      [] x.t = "arr" -> JoinFrom(x.v, 1)
      [] OTHER -> <<"[object Object]">>

-----------------------------------------------------------------------------
(* Path resolution *)

\* path.split('.')
RECURSIVE Split(_)
Split(s) ==
    IF \A i \in 1..Len(s) : s[i] # "."
    THEN <<s>>
    ELSE LET d == CHOOSE i \in 1..Len(s) : s[i] = "." /\ \A j \in 1..(i - 1) : s[j] # "."
         IN  <<SubSeq(s, 1, d - 1)>> \o Split(SubSeq(s, d + 1, Len(s)))

\* part.match(/^(.+?)\[(\d+)\]$/): the position of the "[" that opens the
\* index, or 0 when the part does not match
ArrayMatch(part) ==
    LET n == Len(part)
        opens == {i \in 2..(n - 2) : part[i] = "[" /\ IsDigits(SubSeq(part, i + 1, n - 1))}
    IN  IF n >= 4 /\ part[n] = "]" /\ opens # {}
        THEN CHOOSE i \in opens : \A j \in opens : i <= j
        ELSE 0

\* one round of the for-of loop over parts, after the guard at its top
StepPart(current, part) ==
    LET at == ArrayMatch(part) IN
    IF at > 0
    THEN LET member == GetProp(current, SubSeq(part, 1, at - 1)) IN
         IF ~IsArray(member) THEN [ret |-> TRUE, val |-> Undef]
         ELSE LET n == ParseInt(SubSeq(part, at + 1, Len(part) - 1)) IN
              [ret |-> FALSE, val |-> IF n < Len(member.v) THEN member.v[n + 1] ELSE Undef]
    ELSE [ret |-> FALSE, val |-> GetProp(current, part)]

\* a guard that lets undefined through
IsAbsentNullOnly(current) == current.t = "null"

\* current === null || current === undefined
IsAbsent(current) == current.t \in {"null", "undef"}

\* utils.js getNestedValue: stops on a null or undefined intermediate
RECURSIVE WalkStrict(_, _, _)
WalkStrict(current, parts, i) ==
    IF i > Len(parts) THEN current
    ELSE IF IsAbsent(current) THEN Undef
    ELSE Const(StepPart(current, parts[i]),
               LAMBDA s : IF s.ret THEN s.val ELSE WalkStrict(s.val, parts, i + 1))

getNestedValue(obj, path) == WalkStrict(obj, Split(path), 1)

\* whether utils.js getNestedValue raises: current[key] is a TypeError when
\* current is null or undefined, and nothing else in the loop can raise
RECURSIVE RaisesStrict(_, _, _)
RaisesStrict(current, parts, i) ==
    IF i > Len(parts) THEN FALSE
    ELSE IF IsAbsent(current) THEN FALSE
    ELSE IF current.t \in {"null", "undef"} THEN TRUE
    ELSE Const(StepPart(current, parts[i]),
               LAMBDA s : IF s.ret THEN FALSE ELSE RaisesStrict(s.val, parts, i + 1))

getNestedValueRaises(obj, path) == RaisesStrict(obj, Split(path), 1)

\* template.js getNestedValue: stops on any falsy intermediate
RECURSIVE WalkFalsy(_, _, _)
WalkFalsy(current, parts, i) ==
    IF i > Len(parts) THEN current
    ELSE IF ~Truthy(current) THEN Undef
    ELSE Const(StepPart(current, parts[i]),
               LAMBDA s : IF s.ret THEN s.val ELSE WalkFalsy(s.val, parts, i + 1))

tplGetNestedValue(obj, path) == WalkFalsy(obj, Split(path), 1)

-----------------------------------------------------------------------------
(* template.js *)

IsOpen(s, p) == p + 1 <= Len(s) /\ s[p] = "{" /\ s[p + 1] = "{"
IsClose(s, q) == q + 1 <= Len(s) /\ s[q] = "}" /\ s[q + 1] = "}"

\* the first "}}" that can close a placeholder opened at p: (.+?) takes at
\* least one character
CloseOf(s, p) ==
    IF \E q \in (p + 3)..Len(s) : IsClose(s, q)
    THEN CHOOSE q \in (p + 3)..Len(s) : IsClose(s, q) /\ \A r \in (p + 3)..(q - 1) : ~IsClose(s, r)
    ELSE 0

\* /\{\{(.+?)\}\}/ matches at p: "." matches no line terminator
MatchesAt(s, p) ==
    /\ IsOpen(s, p)
    /\ CloseOf(s, p) > 0
    /\ \A i \in (p + 2)..(CloseOf(s, p) - 1) : s[i] # "\n"

\* the leftmost match at or after from, as <<p, q>> (q the place of its "}}"),
\* or <<>>
FindMatch(s, from) ==
    IF \E p \in from..Len(s) : MatchesAt(s, p)
    THEN LET p == CHOOSE p \in from..Len(s) :
                      MatchesAt(s, p) /\ \A r \in from..(p - 1) : ~MatchesAt(s, r)
         IN  <<p, CloseOf(s, p)>>
    ELSE <<>>

IsSpace(tok) == tok \in {" ", "\n"}

\* String.prototype.trim
RECURSIVE Trim(_)
Trim(s) ==
    IF s = <<>> THEN s
    ELSE IF IsSpace(s[1]) THEN Trim(Tail(s))
    ELSE IF IsSpace(s[Len(s)]) THEN Trim(SubSeq(s, 1, Len(s) - 1))
    ELSE s

\* path.startsWith('env.')
StartsWithEnv(path) == Len(path) >= 2 /\ path[1] = "env" /\ path[2] = "."

\* process.env[envVar]
ProcessEnv(env, name) == GetProp(env, name)

\* Replacer with the trimmed path put back between braces for an unresolved
\* placeholder, instead of the matched text
ReplacerRebuilt(match, rawPath, c, env) ==
    LET path == Trim(rawPath) IN
    IF StartsWithEnv(path)
    THEN LET value == ProcessEnv(env, SubSeq(path, 3, Len(path))) IN
         IF Truthy(value) THEN value.v ELSE <<"{", "{">> \o path \o <<"}", "}">>
    ELSE LET value == tplGetNestedValue(c, path) IN
         IF value # Undef THEN ToText(value) ELSE <<"{", "{">> \o path \o <<"}", "}">>

\* Replacer returning the path, instead of the matched text, for an unresolved
\* placeholder
ReplacerPath(match, rawPath, c, env) ==
    LET path == Trim(rawPath) IN
    IF StartsWithEnv(path)
    THEN LET value == ProcessEnv(env, SubSeq(path, 3, Len(path))) IN
         IF Truthy(value) THEN value.v ELSE path
    ELSE LET value == tplGetNestedValue(c, path) IN
         IF value # Undef THEN ToText(value) ELSE path

\* the replacer callback of interpolate: (match, path) => ...
Replacer(match, rawPath, c, env) ==
    LET path == Trim(rawPath) IN
    IF StartsWithEnv(path)
    THEN LET value == ProcessEnv(env, SubSeq(path, 3, Len(path))) IN
         IF Truthy(value) THEN value.v ELSE match
    ELSE LET value == tplGetNestedValue(c, path) IN
         IF value # Undef THEN ToText(value) ELSE match

\* text.replace(/\{\{(.+?)\}\}/g, replacer), scanning from position from
RECURSIVE ReplaceFrom(_, _, _, _)
ReplaceFrom(s, from, c, env) ==
    Const(FindMatch(s, from), LAMBDA m :
        IF m = <<>> THEN SubSeq(s, from, Len(s))
        ELSE SubSeq(s, from, m[1] - 1)
             \o Replacer(SubSeq(s, m[1], m[2] + 1), SubSeq(s, m[1] + 2, m[2] - 1), c, env)
             \o ReplaceFrom(s, m[2] + 2, c, env))

\* interpolate(text, context), for a text that is a string
interpolate(s, c, env) == ReplaceFrom(s, 1, c, env)

\* an interpolateObject that keeps only the string members of an object
interpolateObjectStrings(x, c, env) ==
    CASE x.t = "str" -> Str(interpolate(x.v, c, env))
      [] x.t = "obj" ->
            Obj(SelectSeq([i \in 1..Len(x.v) |->
                              <<x.v[i][1], IF x.v[i][2].t = "str"
                                           THEN Str(interpolate(x.v[i][2].v, c, env))
                                           ELSE Undef>>],
                          LAMBDA e : e[2] # Undef))
      [] OTHER -> x

\* interpolateObject(obj, context)
RECURSIVE interpolateObject(_, _, _)
interpolateObject(x, c, env) ==
    CASE x.t = "str" -> Str(interpolate(x.v, c, env))
      [] x.t = "arr" -> Arr([i \in 1..Len(x.v) |-> interpolateObject(x.v[i], c, env)])
      [] x.t = "obj" ->
            Obj([i \in 1..Len(x.v) |-> <<x.v[i][1], interpolateObject(x.v[i][2], c, env)>>])
      [] OTHER -> x

-----------------------------------------------------------------------------
(* assertion.js *)

\* a === b.  Two objects (or arrays) are equal only when they are the same
\* object: a value of a response is never the same object as a value of an
\* assertion map.
StrictEq(a, b) == a.t \notin {"obj", "arr"} /\ a = b

\* typeof x === 'object'
TypeofObject(x) == x.t \in {"obj", "arr", "null"}

\* typeof a === typeof b
SameTypeof(a, b) ==
    \/ TypeofObject(a) /\ TypeofObject(b)
    \/ ~TypeofObject(a) /\ ~TypeofObject(b) /\ a.t = b.t

\* Object.keys(x), in order, of an object or an array
OwnKeys(x) ==
    IF x.t = "obj" THEN [i \in 1..Len(x.v) |-> x.v[i][1]]
    ELSE IF x.t = "arr" THEN [i \in 1..Len(x.v) |-> <<ToString(i - 1)>>]
    ELSE <<>>

\* x[key] of an object or an array, for a key that Object.keys gave
Member(x, key) ==
    IF x.t = "obj" THEN GetProp(x, key)
    ELSE IF x.t = "arr"
         THEN IF \E i \in 1..Len(x.v) : <<ToString(i - 1)>> = key
              THEN x.v[CHOOSE i \in 1..Len(x.v) : <<ToString(i - 1)>> = key]
              ELSE Undef
    ELSE Undef

RECURSIVE deepEqual(_, _)
deepEqual(a, b) ==
    IF StrictEq(a, b) THEN TRUE
    ELSE IF a.t \in {"null", "undef"} \/ b.t \in {"null", "undef"} THEN FALSE
    ELSE IF ~SameTypeof(a, b) THEN FALSE
    ELSE IF IsArray(a)
         THEN IF ~IsArray(b) \/ Len(a.v) # Len(b.v) THEN FALSE
              ELSE \A i \in 1..Len(a.v) : deepEqual(a.v[i], b.v[i])
    ELSE IF a.t = "obj"
         THEN IF Len(OwnKeys(a)) # Len(OwnKeys(b)) THEN FALSE
              ELSE \A i \in 1..Len(a.v) : deepEqual(a.v[i][2], Member(b, a.v[i][1]))
    ELSE FALSE

\* ToNumber: [nan, n]
NaN == [nan |-> TRUE, n |-> 0]
Number(n) == [nan |-> FALSE, n |-> n]
NumberOfText(s) ==
    IF s = <<>> THEN Number(0)
    ELSE IF IsDigits(s) THEN Number(ParseInt(s))
    ELSE NaN
ToNumber(x) ==
    CASE x.t = "num" -> Number(x.v)
      [] x.t = "null" -> Number(0)
      [] x.t = "bool" -> Number(IF x.v THEN 1 ELSE 0)
      [] x.t = "undef" -> NaN
      [] OTHER -> NumberOfText(ToText(x))

\* actual < value, actual <= value, ... for a value that is a number: both
\* sides are compared as numbers, and a NaN compares false
Less(a, b) == LET x == ToNumber(a) y == ToNumber(b) IN ~x.nan /\ ~y.nan /\ x.n < y.n
LessEq(a, b) == LET x == ToNumber(a) y == ToNumber(b) IN ~x.nan /\ ~y.nan /\ x.n <= y.n

\* needle occurs in hay (String.prototype.includes)
IsSubText(needle, hay) ==
    \E i \in 0..(Len(hay) - Len(needle)) : SubSeq(hay, i + 1, i + Len(needle)) = needle

\* actual.includes(value): [threw, val]
Includes(actual, value) ==
    CASE actual.t = "str" -> [threw |-> FALSE, val |-> IsSubText(ToText(value), actual.v)]
      [] actual.t = "arr" ->
            [threw |-> FALSE, val |-> \E i \in 1..Len(actual.v) : StrictEq(actual.v[i], value)]
      [] OTHER -> [threw |-> TRUE, val |-> FALSE]  \* actual.includes is not a function

OperatorNames == {"eq", "ne", "gt", "gte", "lt", "lte", "contains", "exists"}

\* one case of the switch of evaluateOperators: [threw, ok]; ok = FALSE is
\* "return false"
EvalOperator(op, actual, value) ==
    CASE op = K("eq") -> [threw |-> FALSE, ok |-> StrictEq(actual, value)]
      [] op = K("ne") -> [threw |-> FALSE, ok |-> ~StrictEq(actual, value)]
      [] op = K("gt") -> [threw |-> FALSE, ok |-> Less(value, actual)]
      [] op = K("gte") -> [threw |-> FALSE, ok |-> LessEq(value, actual)]
      [] op = K("lt") -> [threw |-> FALSE, ok |-> Less(actual, value)]
      [] op = K("lte") -> [threw |-> FALSE, ok |-> LessEq(actual, value)]
      [] op = K("contains") ->
            IF ~Truthy(actual) THEN [threw |-> FALSE, ok |-> FALSE]
            ELSE [threw |-> Includes(actual, value).threw, ok |-> Includes(actual, value).val]
      [] op = K("exists") ->
            [threw |-> FALSE,
             ok |-> ~(Truthy(value) /\ actual = Undef) /\ ~(~Truthy(value) /\ actual # Undef)]
      [] OTHER -> [threw |-> FALSE, ok |-> FALSE]

RECURSIVE EvalFrom(_, _, _, _)
EvalFrom(actual, keys, expected, i) ==
    IF i > Len(keys) THEN [threw |-> FALSE, val |-> TRUE]
    ELSE Const(EvalOperator(keys[i], actual, Member(expected, keys[i])), LAMBDA r :
             IF r.threw THEN [threw |-> TRUE, val |-> FALSE]
             ELSE IF ~r.ok THEN [threw |-> FALSE, val |-> FALSE]
             ELSE EvalFrom(actual, keys, expected, i + 1))

\* evaluateOperators(actual, expected): [threw, val].  Object.entries throws
\* on null.
evaluateOperators(actual, expected) ==
    IF expected.t \in {"null", "undef"} THEN [threw |-> TRUE, val |-> FALSE]
    ELSE EvalFrom(actual, OwnKeys(expected), expected, 1)

OperatorWords(op, value) ==
    CASE op = K("eq") -> << <<"equals ">> \o ToText(value) >>
      [] op = K("ne") -> << <<"does not equal ">> \o ToText(value) >>
      [] op = K("gt") -> << <<"greater than ">> \o ToText(value) >>
      [] op = K("gte") -> << <<"greater than or equal to ">> \o ToText(value) >>
      [] op = K("lt") -> << <<"less than ">> \o ToText(value) >>
      [] op = K("lte") -> << <<"less than or equal to ">> \o ToText(value) >>
      [] op = K("contains") -> << <<"contains \"">> \o ToText(value) \o <<"\"">> >>
      [] op = K("exists") -> << IF Truthy(value) THEN <<"exists">> ELSE <<"does not exist">> >>
      [] OTHER -> <<>>

RECURSIVE JoinWords(_, _)
JoinWords(parts, sep) ==
    IF parts = <<>> THEN <<>>
    ELSE IF Len(parts) = 1 THEN parts[1]
    ELSE parts[1] \o sep \o JoinWords(Tail(parts), sep)

RECURSIVE OperatorParts(_, _)
OperatorParts(expected, i) ==
    IF i > Len(OwnKeys(expected)) THEN <<>>
    ELSE OperatorWords(OwnKeys(expected)[i], Member(expected, OwnKeys(expected)[i]))
         \o OperatorParts(expected, i + 1)

\* formatOperators(expected), reached only after evaluateOperators returned
formatOperators(expected) == JoinWords(OperatorParts(expected, 1), <<" and ">>)

\* JSON.stringify(value)
RECURSIVE JsonText(_)
RECURSIVE JsonItems(_, _)
JsonItems(x, i) ==
    IF i > Len(x.v) THEN <<>>
    ELSE (IF i > 1 THEN <<",">> ELSE <<>>)
         \o (IF x.t = "obj"
              THEN <<"\"">> \o x.v[i][1] \o <<"\"", ":">> \o JsonText(x.v[i][2])
              ELSE JsonText(x.v[i]))
         \o JsonItems(x, i + 1)
JsonText(x) ==
    CASE x.t = "str" -> <<"\"">> \o x.v \o <<"\"">>
      [] x.t = "arr" -> <<"[">> \o JsonItems(x, 1) \o <<"]">>
      [] x.t = "obj" -> <<"{">> \o JsonItems(x, 1) \o <<"}">>
      [] OTHER -> ToText(x)

\* String.prototype.toLowerCase, on the header names of the model
LowerTok(tok) ==
    CASE tok = "Content-Type" -> "content-type"
      [] tok = "X-Id" -> "x-id"
      [] OTHER -> tok
ToLowerCase(s) == [i \in 1..Len(s) |-> LowerTok(s[i])]

StartsWith(s, prefix) == Len(s) >= Len(prefix) /\ SubSeq(s, 1, Len(prefix)) = prefix

AssertionResult(path, expected, actual, passed, description) ==
    [path |-> path, expected |-> expected, actual |-> actual, passed |-> passed,
     description |-> description]

\* the body of the for-of loop of runAssertions for one entry:
\* [threw, pushed, result]
AssertEntryOf(response, path, expected) ==
    IF path = K("status")
    THEN [threw |-> FALSE, pushed |-> TRUE,
          result |-> AssertionResult(path, expected, GetProp(response, K("status")),
                        Bool(StrictEq(GetProp(response, K("status")), expected)),
                        <<"Status code is ">> \o ToText(expected))]
    ELSE IF path = K("responseTime")
    THEN LET actual == GetProp(response, K("responseTime")) IN
         IF TypeofObject(expected)
         THEN Const(evaluateOperators(actual, expected), LAMBDA r :
              [threw |-> r.threw, pushed |-> ~r.threw,
               result |-> AssertionResult(path, expected, actual, Bool(r.val),
                             IF r.threw THEN <<>>
                             ELSE <<"Response time ">> \o formatOperators(expected))])
         ELSE [threw |-> FALSE, pushed |-> TRUE,
               result |-> AssertionResult(path, expected, actual,
                             Bool(StrictEq(actual, expected)),
                             <<"Response time is ">> \o ToText(expected) \o <<"ms">>)]
    ELSE IF StartsWith(path, <<"headers", ".">>)
    THEN LET headerName == ToLowerCase(SubSeq(path, 3, Len(path)))
             headers == GetProp(response, K("headers"))
             actual == GetProp(headers, headerName)
         IN
         IF headers.t \in {"null", "undef"}
         THEN [threw |-> TRUE, pushed |-> FALSE,
               result |-> AssertionResult(path, expected, Undef, Bool(FALSE), <<>>)]
         ELSE IF expected.t = "str"
         THEN LET inc == Includes(actual, expected)
                  threw == ~StrictEq(actual, expected) /\ Truthy(actual) /\ inc.threw
                  passed == IF StrictEq(actual, expected) THEN Bool(TRUE)
                            ELSE IF ~Truthy(actual) THEN actual
                            ELSE Bool(inc.val)
              IN  [threw |-> threw, pushed |-> ~threw,
                   result |-> AssertionResult(path, expected, actual, passed,
                                 <<"Header ">> \o headerName \o <<" contains \"">>
                                 \o expected.v \o <<"\"">>)]
         ELSE IF TypeofObject(expected)
         THEN Const(evaluateOperators(actual, expected), LAMBDA r :
              [threw |-> r.threw, pushed |-> ~r.threw,
               result |-> AssertionResult(path, expected, actual, Bool(r.val),
                             IF r.threw THEN <<>>
                             ELSE <<"Header ">> \o headerName \o <<" ">>
                                  \o formatOperators(expected))])
         ELSE [threw |-> FALSE, pushed |-> TRUE,
               result |-> AssertionResult(path, expected, actual, Bool(FALSE), <<>>)]
    ELSE IF StartsWith(path, <<"body", ".">>)
    THEN Const(getNestedValue(GetProp(response, K("body")), SubSeq(path, 3, Len(path))),
               LAMBDA actual :
         IF TypeofObject(expected) /\ ~IsArray(expected)
         THEN Const(evaluateOperators(actual, expected), LAMBDA r :
              [threw |-> r.threw, pushed |-> ~r.threw,
               result |-> AssertionResult(path, expected, actual, Bool(r.val),
                             IF r.threw THEN <<>>
                             ELSE path \o <<" ">> \o formatOperators(expected))])
         ELSE [threw |-> FALSE, pushed |-> TRUE,
               result |-> AssertionResult(path, expected, actual,
                             Bool(deepEqual(actual, expected)),
                             path \o <<" equals ">> \o JsonText(expected))])
    ELSE [threw |-> FALSE, pushed |-> FALSE,
          result |-> AssertionResult(path, expected, Undef, Bool(FALSE), <<>>)]

AssertEntry(response, path, expected) ==
    Const(<<response, expected>>, LAMBDA a : AssertEntryOf(a[1], path, a[2]))

RECURSIVE AssertFrom(_, _, _, _)
AssertFrom(response, assertions, i, acc) ==
    IF i > Len(OwnKeys(assertions)) THEN [threw |-> FALSE, results |-> acc]
    ELSE Const(AssertEntry(response, OwnKeys(assertions)[i],
                           Member(assertions, OwnKeys(assertions)[i])), LAMBDA e :
             IF e.threw THEN [threw |-> TRUE, results |-> <<>>]
             ELSE AssertFrom(response, assertions, i + 1,
                             IF e.pushed THEN Append(acc, e.result) ELSE acc))

\* a runAssertions that puts each result in front: results.unshift(result)
runAssertionsUnshift(response, assertions) ==
    Const(AssertFrom(response, assertions, 1, <<>>), LAMBDA r :
        [r EXCEPT !.results = [i \in 1..Len(r.results) |-> r.results[Len(r.results) + 1 - i]]])

\* runAssertions(response, assertions): [threw, results]; threw = TRUE when a
\* TypeError leaves the function instead of a result
runAssertions(response, assertions) == AssertFrom(response, assertions, 1, <<>>)

-----------------------------------------------------------------------------
(* Inputs of interpolate: texts assembled from at most MaxSegs pieces *)

MaxSegs == 2

Open == <<"{", "{">>
Close == <<"}", "}">>

\* a well-formed placeholder: {{ pre path post }}, pre and post white space
Ph(pre, path, post) == [ph |-> TRUE, pre |-> pre, path |-> path, post |-> post]
\* any other piece of text
Lit(raw) == [ph |-> FALSE, raw |-> raw]

SegText(g) == IF g.ph THEN Open \o g.pre \o g.path \o g.post \o Close ELSE g.raw

Placeholders ==
    { Ph(<<>>, <<"a">>, <<>>),
      Ph(<<" ">>, <<"a">>, <<" ", " ">>),
      Ph(<<>>, <<"n">>, <<>>),
      Ph(<<>>, <<"missing">>, <<>>),
      Ph(<<" ">>, <<"missing", ".", "a">>, <<>>),
      Ph(<<>>, <<"user", ".", "profile", ".", "name">>, <<>>),
      Ph(<<>>, <<"users", "[", "0", "]", ".", "name">>, <<>>),
      Ph(<<>>, <<"users", "[", "5", "]", ".", "name">>, <<>>),
      Ph(<<>>, <<"env", ".", "A">>, <<>>),
      Ph(<<" ">>, <<"env", ".", "B">>, <<" ">>) }

\* plain text holds no brace
PlainText == { Lit(<<"x">>), Lit(<<" ">>), Lit(<<"\n">>) }

StrayText ==
    { Lit(<<"{">>), Lit(<<"}">>), Lit(Open), Lit(Close),
      Lit(Open \o Open \o <<"env", ".", "A">> \o Close \o Close),
      Lit(<<"{", "env", ".", "B">> \o Close) }

Segments == Placeholders \cup PlainText \cup StrayText

SegSeqs == UNION { [1..n -> Segments] : n \in 0..MaxSegs }

RECURSIVE Flatten(_)
Flatten(gs) == IF gs = <<>> THEN <<>> ELSE SegText(Head(gs)) \o Flatten(Tail(gs))

EmptyCtx == Obj(<<>>)

UserCtx ==
    Obj(<< <<K("a"), S("one")>>,
           <<K("n"), Num(0)>>,
           <<K("user"), Obj(<< <<K("profile"), Obj(<< <<K("name"), S("Alice")>> >>)>> >>)>>,
           <<K("users"), Arr(<< Obj(<< <<K("id"), Num(1)>>, <<K("name"), S("Alice")>> >>),
                                Obj(<< <<K("id"), Num(2)>>, <<K("name"), S("Bob")>> >>) >>)>> >>)

Contexts == {EmptyCtx, UserCtx}

\* process.env holds strings only
ProcessEnvs ==
    { Obj(<<>>),
      Obj(<< <<K("A"), S("v")>>, <<K("B"), Str(<<>>)>> >>),
      Obj(<< <<K("A"), Str(Open \o <<"env", ".", "B">> \o Close)>>, <<K("B"), S("v")>> >>),
      Obj(<< <<K("A"), S("{")>>, <<K("B"), S("v")>> >>) }

RunOff ==
    /\ collection = Obj(<<>>) /\ options = Obj(<<>>) /\ idx = 0 /\ pc = "off"
    /\ context = Obj(<<>>) /\ results = <<>> /\ interpolated = Undef
    /\ sent = <<>> /\ replies = <<>>

AssertOff == aresp = Undef /\ amap = Obj(<<>>) /\ aout = Undef /\ apc = "off"

FunOff == fargs = Undef /\ fret = Undef /\ fpc = "off"

ConcOff == runs = <<>> /\ heap = <<>>

TemplateOff ==
    /\ text = <<>> /\ segs = <<>> /\ ctx = Obj(<<>>) /\ out = <<>> /\ out2 = <<>>
    /\ tpc = "off"

InitTemplate ==
    /\ segs \in SegSeqs
    /\ text = Flatten(segs)
    /\ ctx \in Contexts
    /\ penv \in ProcessEnvs
    /\ out = <<>> /\ out2 = <<>> /\ tpc = "in"
    /\ RunOff /\ AssertOff /\ FunOff /\ ConcOff

\* out = interpolate(text, ctx)
Interpolate ==
    /\ tpc = "in"
    /\ out' = interpolate(text, ctx, penv)
    /\ tpc' = "once"
    /\ UNCHANGED <<text, segs, ctx, out2, penv, runVars, asrtVars, funVars, concVars>>

\* out2 = interpolate(out, ctx)
Reinterpolate ==
    /\ tpc = "once"
    /\ out2' = interpolate(out, ctx, penv)
    /\ tpc' = "twice"
    /\ UNCHANGED <<text, segs, ctx, out, penv, runVars, asrtVars, funVars, concVars>>

NextTemplate == Interpolate \/ Reinterpolate

SpecTemplate == InitTemplate /\ [][NextTemplate]_vars

-----------------------------------------------------------------------------
(* Inputs of runAssertions: assertion maps of at most MaxAsserts entries.  *)
(* The operand of an ordering operator is a number in every map.           *)

MaxAsserts == 2

JsonHeaders ==
    Obj(<< <<K("content-type"), Str(<<"application/json", ";", " ", "charset=utf-8">>)>> >>)

OkBody ==
    Obj(<< <<K("count"), Num(42)>>,
           <<K("title"), Str(<<"New", " ", "Post">>)>>,
           <<K("tags"), Arr(<<S("a")>>)>>,
           <<K("meta"), Obj(<<>>)>>,
           <<K("none"), Null>> >>)

AssertResponses ==
    { Obj(<< <<K("status"), Num(200)>>, <<K("headers"), JsonHeaders>>,
             <<K("body"), OkBody>>, <<K("responseTime"), Num(150)>> >>),
      Obj(<< <<K("status"), Num(404)>>, <<K("headers"), Obj(<<>>)>>,
             <<K("body"), S("nf")>>, <<K("responseTime"), Num(550)>> >>) }

Ops1(op, value) == Obj(<< <<K(op), value>> >>)
Ops2(op1, value1, op2, value2) == Obj(<< <<K(op1), value1>>, <<K(op2), value2>> >>)

BodyPath(tok) == <<"body", ".", tok>>

AssertEntries ==
    { <<K("status"), Num(200)>>,
      <<K("status"), Ops1("eq", Num(200))>>,
      <<K("responseTime"), Ops1("lt", Num(200))>>,
      <<K("responseTime"), Num(150)>>,
      <<K("responseTime"), Null>>,
      <<<<"headers", ".", "Content-Type">>, S("application/json")>>,
      <<<<"headers", ".", "X-Id">>, S("a")>>,
      <<<<"headers", ".", "content-type">>, Ops1("exists", Bool(TRUE))>>,
      <<<<"headers", ".", "content-type">>, Num(1)>>,
      <<BodyPath("count"), Num(42)>>,
      <<BodyPath("count"), Ops2("gte", Num(42), "lte", Num(42))>>,
      <<BodyPath("count"), Ops2("gt", Num(40), "lt", Num(42))>>,
      <<BodyPath("count"), Ops1("contains", Num(4))>>,
      <<BodyPath("count"), Ops2("bogus", Num(1), "contains", Num(4))>>,
      <<BodyPath("count"), Ops2("gte", Num(42), "bogus", Num(1))>>,
      <<BodyPath("title"), Str(<<"New", " ", "Post">>)>>,
      <<BodyPath("title"), Ops1("contains", S("New"))>>,
      <<BodyPath("tags"), Arr(<<S("a")>>)>>,
      <<BodyPath("meta"), Arr(<<>>)>>,
      <<BodyPath("none"), Null>>,
      <<BodyPath("missing"), Ops1("exists", Bool(FALSE))>>,
      <<K("foo"), Num(1)>>,
      <<<<"body", "[", "0", "]", ".", "id">>, Num(1)>> }

DistinctPaths(es) == \A i, j \in 1..Len(es) : i # j => es[i][1] # es[j][1]

AssertMaps ==
    { Obj(es) : es \in { f \in UNION { [1..n -> AssertEntries] : n \in 0..MaxAsserts } :
                            DistinctPaths(f) } }

InitAssert ==
    /\ aresp \in AssertResponses
    /\ amap \in AssertMaps
    /\ aout = Undef /\ apc = "in"
    /\ penv = Obj(<<>>)
    /\ TemplateOff /\ RunOff /\ FunOff /\ ConcOff

\* aout = runAssertions(aresp, amap), or the exception it raised
RunAssertions ==
    /\ apc = "in"
    /\ aout' = runAssertions(aresp, amap)
    /\ apc' = "ran"
    /\ UNCHANGED <<aresp, amap, penv, tplVars, runVars, funVars, concVars>>

NextAssert == RunAssertions

SpecAssert == InitAssert /\ [][NextAssert]_vars

-----------------------------------------------------------------------------
(* Inputs of evaluateOperators: an actual value and an operator object of  *)
(* at most MaxOps entries.  The operand of an ordering operator is a       *)
(* number.                                                                 *)

MaxOps == 2

Actuals ==
    { Num(42), Num(0), Str(<<"New", " ", "Post">>), Str(<<>>), Arr(<<S("a")>>),
      Obj(<<>>), Bool(TRUE), Null, Undef }

OperatorEntries ==
    { <<K("eq"), Num(42)>>, <<K("ne"), Num(42)>>, <<K("gt"), Num(40)>>,
      <<K("gte"), Num(42)>>, <<K("lt"), Num(42)>>, <<K("lte"), Num(42)>>,
      <<K("contains"), S("a")>>, <<K("contains"), S("New")>>,
      <<K("exists"), Bool(TRUE)>>, <<K("exists"), Bool(FALSE)>>,
      <<K("bogus"), Num(1)>> }

OperatorObjects ==
    { Obj(es) : es \in { f \in UNION { [1..n -> OperatorEntries] : n \in 0..MaxOps } :
                            DistinctPaths(f) } }

InitOps ==
    /\ fargs \in [actual : Actuals, expected : OperatorObjects]
    /\ fret = Undef /\ fpc = "in"
    /\ penv = Obj(<<>>)
    /\ TemplateOff /\ RunOff /\ AssertOff /\ ConcOff

\* fret = evaluateOperators(actual, expected), or the exception it raised
EvaluateOperators ==
    /\ fpc = "in"
    /\ fret' = evaluateOperators(fargs.actual, fargs.expected)
    /\ fpc' = "ran"
    /\ UNCHANGED <<fargs, penv, tplVars, runVars, asrtVars, concVars>>

NextOps == EvaluateOperators

SpecOps == InitOps /\ [][NextOps]_vars

-----------------------------------------------------------------------------
(* The two getNestedValue functions, called on the same data and path *)

ResolverData ==
    { Obj(<< <<K("a"), Obj(<< <<K("b"), Num(1)>> >>)>> >>),
      Obj(<< <<K("s"), S("")>>, <<K("a"), S("x")>> >>),
      Obj(<< <<K("s"), Str(<<>>)>> >>),
      Obj(<< <<K("n"), Num(0)>>, <<K("a"), Num(5)>> >>),
      Obj(<< <<K("f"), Bool(FALSE)>>, <<K("a"), Bool(TRUE)>> >>),
      Obj(<< <<K("items"), Arr(<<S("x"), Str(<<>>), Num(0)>>)>> >>),
      Obj(<< <<K("u"), Null>>, <<K("a"), Arr(<<>>)>> >>),
      Obj(<<>>), Str(<<>>), S("abc"), Num(0), Null, Undef }

ResolverPaths ==
    { <<"a">>, <<"a", ".", "b">>, <<"a", ".", "length">>, <<"s">>,
      <<"s", ".", "length">>, <<"n", ".", "x">>, <<"f", ".", "x">>,
      <<"u", ".", "x">>, <<"items", "[", "1", "]">>,
      <<"items", "[", "1", "]", ".", "length">>, <<"items", ".", "length">>,
      <<"length">>, <<"a", "[", "0", "]">>, <<"u", "[", "0", "]", ".", "x">>,
      <<"a", ".", "b", ".", "c", ".", "d">>, <<"s", "[", "0", "]">> }

InitResolve ==
    /\ fargs \in [obj : ResolverData, path : ResolverPaths]
    /\ fret = Undef /\ fpc = "in"
    /\ penv = Obj(<<>>)
    /\ TemplateOff /\ RunOff /\ AssertOff /\ ConcOff

\* fret = what each getNestedValue(obj, path) returns
Resolve ==
    /\ fpc = "in"
    /\ fret' = [template |-> tplGetNestedValue(fargs.obj, fargs.path),
                utils |-> getNestedValue(fargs.obj, fargs.path),
                raised |-> getNestedValueRaises(fargs.obj, fargs.path)]
    /\ fpc' = "ran"
    /\ UNCHANGED <<fargs, penv, tplVars, runVars, asrtVars, concVars>>

NextResolve == Resolve

SpecResolve == InitResolve /\ [][NextResolve]_vars

-----------------------------------------------------------------------------
(* Inputs of runCollection: collections of at most MaxReqs requests.  The  *)
(* string fields of a request are assembled from pieces, like the texts    *)
(* handed to interpolate above.                                            *)

MaxReqs == 2

RequestNames == {"login", "profile"}

TokenPh == Ph(<<>>, <<"login", ".", "response", ".", "body", ".", "token">>, <<>>)
SpacedTokenPh == Ph(<<" ">>, <<"login", ".", "response", ".", "body", ".", "token">>, <<" ">>)
IdPh == Ph(<<>>, <<"login", ".", "response", ".", "body", ".", "id">>, <<>>)
EnvPh == Ph(<<>>, <<"env", ".", "A">>, <<>>)
StatusPh == Ph(<<>>, <<"login", ".", "response", ".", "status">>, <<>>)

RequestKinds == {"plain", "chained", "raw", "nourl"}

\* the pieces of the string fields of a request of each kind; <<>> stands for
\* a field the request does not have
UrlSegs(kind) ==
    CASE kind \in {"plain", "strict", "loose", "bare"} -> <<Lit(<<"http://api", "/x">>)>>
      [] kind = "chained" -> <<Lit(<<"/u/">>), TokenPh>>
      [] kind = "raw" -> <<Lit(<<"http://api", "/x/">>), TokenPh>>
      [] kind = "echo" -> <<Lit(<<"http://api", "/x/">>), StatusPh, Lit(<<"/">>), TokenPh>>
      [] OTHER -> <<>>
AuthSegs(kind) == IF kind = "chained" THEN <<Lit(<<"Bearer", " ">>), TokenPh>> ELSE <<>>
XEnvSegs(kind) == IF kind = "raw" THEN <<EnvPh>> ELSE <<>>
JsonSegs(kind) == IF kind = "chained" THEN <<IdPh>> ELSE <<>>
BodySegs(kind) ==
    CASE kind = "chained" -> <<Lit(<<"t=">>), Lit(<<"1">>)>>
      [] kind = "raw" -> <<Lit(<<"t=">>), SpacedTokenPh>>
      [] OTHER -> <<>>

Field(key, segments) ==
    IF segments = <<>> THEN <<>> ELSE << <<K(key), Str(Flatten(segments))>> >>

HeadersOf(kind) ==
    IF AuthSegs(kind) = <<>> /\ XEnvSegs(kind) = <<>> THEN <<>>
    ELSE << <<K("headers"),
              Obj(Field("Authorization", AuthSegs(kind)) \o Field("X-Env", XEnvSegs(kind)))>> >>

JsonOf(kind) ==
    IF JsonSegs(kind) = <<>> THEN <<>>
    ELSE << <<K("json"),
              Obj(Field("user", JsonSegs(kind))
                  \o << <<K("tags"), Arr(<<Str(Flatten(JsonSegs(kind))), Num(1), Null>>)>> >>)>> >>

AssertOf(kind) ==
    CASE kind = "chained" -> << <<K("assert"), Obj(<< <<K("status"), Num(200)>> >>)>> >>
      [] kind = "raw" ->
            << <<K("assert"), Obj(<< <<BodyPath("id"), Ops1("contains", S("a"))>> >>)>> >>
      [] kind = "strict" -> << <<K("assert"), Obj(<< <<K("status"), Num(201)>> >>)>> >>
      [] kind = "loose" ->
            << <<K("assert"), Obj(<< <<K("foo"), Num(1)>>,
                                     <<<<"body", "[", "0", "]", ".", "id">>, Num(7)>> >>)>> >>
      [] kind = "bare" -> << <<K("assert"), Obj(<<>>)>> >>
      [] OTHER -> <<>>

MethodOf(kind) ==
    CASE kind = "chained" -> << <<K("method"), S("POST")>> >>
      [] kind = "raw" -> << <<K("method"), S("GET")>> >>
      [] OTHER -> <<>>

\* a RequestSpec
Request(kind, name) ==
    Obj(<< <<K("name"), S(name)>> >> \o MethodOf(kind) \o Field("url", UrlSegs(kind))
        \o HeadersOf(kind) \o JsonOf(kind) \o Field("body", BodySegs(kind))
        \o AssertOf(kind))

Requests == { Request(kind, name) : kind \in RequestKinds, name \in RequestNames }

Collections ==
    { Obj(<< <<K("name"), S("suite")>>, <<K("requests"), Arr(rs)>> >>) :
        rs \in UNION { [1..n -> Requests] : n \in 0..MaxReqs } }

\* a second set of collections, of at most MaxEdgeReqs requests: an assertion
\* that always fails, assert maps that give no result, a request named env,
\* requests that share a name, a placeholder for the status of a response
MaxEdgeReqs == 2

EdgeRequests ==
    { Request("strict", "login"), Request("loose", "login"),
      Request("bare", "env"), Request("echo", "profile") }

EdgeCollections ==
    { Obj(<< <<K("name"), S("suite")>>, <<K("requests"), Arr(rs)>> >>) :
        rs \in UNION { [1..n -> EdgeRequests] : n \in 1..MaxEdgeReqs } }

\* options.env is the variables mapping of the environment file
OptionsSet ==
    { [env |-> Obj(<<>>), baseUrl |-> <<>>],
      [env |-> Obj(<< <<K("A"), S("staging")>> >>), baseUrl |-> <<"http://api">>] }

RunProcessEnvs == { Obj(<<>>), Obj(<< <<K("A"), S("prod")>> >>) }

\* what the server can answer
JsonBody(token) == Obj(<< <<K("token"), Str(token)>>, <<K("id"), Num(7)>> >>)

ServerReplies ==
    { [status |-> 200, statusText |-> <<"OK">>, time |-> 150, headers |-> JsonHeaders,
       body |-> JsonBody(<<"abc">>)],
      [status |-> 200, statusText |-> <<"OK">>, time |-> 150, headers |-> JsonHeaders,
       body |-> JsonBody(Open \o <<"login", ".", "response", ".", "status">> \o Close)],
      [status |-> 404, statusText |-> <<"Not Found">>, time |-> 550,
       headers |-> Obj(<< <<K("content-type"), S("text/plain")>> >>),
       body |-> S("nf")] }

\* the messages of the errors client.request raises
ErrorMessages == { <<"DNS lookup failed">> }

-----------------------------------------------------------------------------
(* collection-runner.js *)

\* collection.requests || []
RequestsOf(c) ==
    LET rs == GetProp(c, K("requests")) IN IF Truthy(rs) THEN rs.v ELSE <<>>

\* the result object a round of the loop starts with
NewResult(request) ==
    [name |-> GetProp(request, K("name")), passed |-> FALSE, assertions |-> <<>>,
     error |-> Null, response |-> Null]

\* the catch block
Caught(result, message) == [result EXCEPT !.error = Str(message), !.passed = FALSE]

\* url.startsWith('http')
StartsWithHttp(s) == s # <<>> /\ s[1] \in {"http://api"}

TypeErrorMessage == <<"TypeError">>

\* "Build URL": [threw, url].  url.startsWith raises a TypeError when the
\* interpolated request has no url string and baseUrl is not empty.
BuildUrl(interp, baseUrl, c, env) ==
    LET url == GetProp(interp, K("url")) IN
    IF baseUrl # <<>> /\ url.t # "str" THEN [threw |-> TRUE, url |-> Undef]
    ELSE [threw |-> FALSE,
          url |-> interpolateObject(
                     IF baseUrl # <<>> /\ ~StartsWithHttp(url.v)
                     THEN Str(baseUrl \o url.v) ELSE url,
                     c, env)]

\* one call of client.request: interpolated.method || 'GET', url, requestOptions
Call(interp, url, round) ==
    LET method == GetProp(interp, K("method"))
        headers == GetProp(interp, K("headers"))
        json == GetProp(interp, K("json"))
        body == GetProp(interp, K("body"))
    IN  [round |-> round,
         method |-> IF Truthy(method) THEN method ELSE S("GET"),
         url |-> url,
         headers |-> IF Truthy(headers) THEN headers ELSE Obj(<<>>),
         json |-> IF Truthy(json) THEN json ELSE Undef,
         body |-> IF ~Truthy(json) /\ Truthy(body) THEN body ELSE Undef]

\* the response object client.request resolves with (http-client.js)
ResponseRecord(reply, call) ==
    LET raw == IF reply.body.t = "str" THEN reply.body.v ELSE JsonText(reply.body) IN
    Obj(<< <<K("status"), Num(reply.status)>>,
           <<K("statusText"), Str(reply.statusText)>>,
           <<K("headers"), reply.headers>>,
           <<K("body"), reply.body>>,
           <<K("rawBody"), Str(raw)>>,
           <<K("size"), Num(CharLen(raw))>>,
           <<K("responseTime"), Num(reply.time)>>,
           <<K("url"), call.url>>,
           <<K("method"), call.method>> >>)

\* a try block in which passed also asks for a status in [200, 400) when
\* there are assertions
AfterResponseStatus(result, response, interp) ==
    LET got == [result EXCEPT !.response = response]
        assert == GetProp(interp, K("assert"))
        status == GetProp(response, K("status")).v
    IN  IF Truthy(assert)
        THEN Const(runAssertions(response, assert), LAMBDA a :
             IF a.threw THEN Caught(got, TypeErrorMessage)
             ELSE [got EXCEPT !.assertions = a.results,
                              !.passed = /\ status >= 200 /\ status < 400
                                         /\ \A i \in 1..Len(a.results) :
                                               Truthy(a.results[i].passed)])
        ELSE [got EXCEPT !.passed = status >= 200 /\ status < 400]

\* the rest of the try block once client.request has resolved
AfterResponse(result, response, interp) ==
    LET got == [result EXCEPT !.response = response]
        assert == GetProp(interp, K("assert"))
        status == GetProp(response, K("status")).v
    IN  IF Truthy(assert)
        THEN Const(runAssertions(response, assert), LAMBDA a :
             IF a.threw THEN Caught(got, TypeErrorMessage)
             ELSE [got EXCEPT !.assertions = a.results,
                              !.passed = \A i \in 1..Len(a.results) :
                                             Truthy(a.results[i].passed)])
        ELSE [got EXCEPT !.passed = status >= 200 /\ status < 400]

\* a context replaced by the new binding alone
BindOnly(c, request, response) ==
    Obj(<< <<GetProp(request, K("name")).v, Obj(<< <<K("response"), response>> >>)>> >>)

\* context[request.name] = { response }
Bind(c, request, response) ==
    SetProp(c, GetProp(request, K("name")).v, Obj(<< <<K("response"), response>> >>))

CurrentRequest == RequestsOf(collection)[idx]

\* a run whose context starts with a response already bound to login
InitPrebound ==
    /\ collection \in Collections
    /\ options \in OptionsSet
    /\ penv \in RunProcessEnvs
    /\ idx = 1 /\ pc = "loop"
    /\ context = Obj(<< <<K("env"), options.env>>,
                        <<K("login"), Obj(<< <<K("response"),
                            Obj(<< <<K("body"), Obj(<< <<K("token"), S("abc")>>,
                                                       <<K("id"), Num(7)>> >>)>> >>)>> >>)>> >>)
    /\ results = <<>> /\ interpolated = Undef /\ sent = <<>> /\ replies = <<>>
    /\ TemplateOff /\ AssertOff /\ FunOff /\ ConcOff

Init ==
    /\ collection \in Collections
    /\ options \in OptionsSet
    /\ penv \in RunProcessEnvs
    /\ idx = 1 /\ pc = "loop"
    /\ context = Obj(<< <<K("env"), options.env>> >>)
    /\ results = <<>> /\ interpolated = Undef /\ sent = <<>> /\ replies = <<>>
    /\ TemplateOff /\ AssertOff /\ FunOff /\ ConcOff

\* runCollection on the second set of collections
InitEdge ==
    /\ collection \in EdgeCollections
    /\ options \in OptionsSet
    /\ penv \in RunProcessEnvs
    /\ idx = 1 /\ pc = "loop"
    /\ context = Obj(<< <<K("env"), options.env>> >>)
    /\ results = <<>> /\ interpolated = Undef /\ sent = <<>> /\ replies = <<>>
    /\ TemplateOff /\ AssertOff /\ FunOff /\ ConcOff

\* a round of the loop that calls client.request and goes on to the next
\* request without awaiting the outcome
DispatchEager ==
    /\ pc = "loop" /\ idx <= Len(RequestsOf(collection))
    /\ \E interp \in {interpolateObject(CurrentRequest, context, penv)} :
       \E built \in {BuildUrl(interp, options.baseUrl, context, penv)} :
           /\ interpolated' = interp
           /\ IF built.threw
              THEN /\ results' = Append(results, Caught(NewResult(CurrentRequest), TypeErrorMessage))
                   /\ replies' = Append(replies, [kind |-> "threw"])
                   /\ UNCHANGED sent
              ELSE /\ sent' = Append(sent, Call(interp, built.url, idx))
                   /\ UNCHANGED <<results, replies>>
    /\ idx' = idx + 1
    /\ UNCHANGED <<pc, collection, options, context, penv, tplVars, asrtVars, funVars, concVars>>

\* a round of the loop up to the await: interpolate the request, build the
\* url and the options, call client.request
Dispatch ==
    /\ pc = "loop" /\ idx <= Len(RequestsOf(collection))
    /\ \E interp \in {interpolateObject(CurrentRequest, context, penv)} :
       \E built \in {BuildUrl(interp, options.baseUrl, context, penv)} :
           /\ interpolated' = interp
           /\ IF built.threw
              THEN /\ results' = Append(results, Caught(NewResult(CurrentRequest), TypeErrorMessage))
                   /\ replies' = Append(replies, [kind |-> "threw"])
                   /\ idx' = idx + 1
                   /\ UNCHANGED <<pc, sent>>
              ELSE /\ sent' = Append(sent, Call(interp, built.url, idx))
                   /\ pc' = "await"
                   /\ UNCHANGED <<results, replies, idx>>
    /\ UNCHANGED <<collection, options, context, penv, tplVars, asrtVars, funVars, concVars>>

\* a round that, once client.request resolves, passes over the next request
RespondSkips ==
    /\ pc = "await"
    /\ sent[Len(sent)].url.t = "str"
    /\ \E reply \in ServerReplies :
       \E response \in {ResponseRecord(reply, sent[Len(sent)])} :
          /\ context' = Bind(context, CurrentRequest, response)
          /\ results' = Append(results, AfterResponse(NewResult(CurrentRequest), response, interpolated))
          /\ replies' = Append(replies, [kind |-> "response", response |-> response])
    /\ idx' = idx + 2 /\ pc' = "loop"
    /\ UNCHANGED <<collection, options, interpolated, sent, penv, tplVars, asrtVars, funVars, concVars>>

\* a round that binds the response only when the result passed
RespondBindsPassed ==
    /\ pc = "await"
    /\ sent[Len(sent)].url.t = "str"
    /\ \E reply \in ServerReplies :
       \E response \in {ResponseRecord(reply, sent[Len(sent)])} :
       \E result \in {AfterResponse(NewResult(CurrentRequest), response, interpolated)} :
          /\ context' = IF result.passed THEN Bind(context, CurrentRequest, response)
                         ELSE context
          /\ results' = Append(results, result)
          /\ replies' = Append(replies, [kind |-> "response", response |-> response])
    /\ idx' = idx + 1 /\ pc' = "loop"
    /\ UNCHANGED <<collection, options, interpolated, sent, penv, tplVars, asrtVars, funVars, concVars>>

\* client.request resolves: the rest of the try block, then results.push
Respond ==
    /\ pc = "await"
    /\ sent[Len(sent)].url.t = "str"
    /\ \E reply \in ServerReplies :
       \E response \in {ResponseRecord(reply, sent[Len(sent)])} :
          /\ context' = Bind(context, CurrentRequest, response)
          /\ results' = Append(results, AfterResponse(NewResult(CurrentRequest), response, interpolated))
          /\ replies' = Append(replies, [kind |-> "response", response |-> response])
    /\ idx' = idx + 1 /\ pc' = "loop"
    /\ UNCHANGED <<collection, options, interpolated, sent, penv, tplVars, asrtVars, funVars, concVars>>

\* a catch block whose result goes to the front of results
DispatchFailsFirst ==
    /\ pc = "await"
    /\ \E message \in ErrorMessages :
          /\ results' = <<Caught(NewResult(CurrentRequest), message)>> \o results
          /\ replies' = Append(replies, [kind |-> "error", message |-> message])
    /\ idx' = idx + 1 /\ pc' = "loop"
    /\ UNCHANGED <<collection, options, context, interpolated, sent, penv, tplVars, asrtVars, funVars, concVars>>

\* a catch block that records the error and raises it again
DispatchFailsRethrows ==
    /\ pc = "await"
    /\ \E message \in ErrorMessages :
          /\ results' = Append(results, Caught(NewResult(CurrentRequest), message))
          /\ replies' = Append(replies, [kind |-> "error", message |-> message])
    /\ pc' = "threw"
    /\ UNCHANGED <<collection, options, idx, context, interpolated, sent, penv, tplVars, asrtVars, funVars, concVars>>

\* a catch block that binds the name of the request to an empty response
DispatchFailsBinds ==
    /\ pc = "await"
    /\ \E message \in ErrorMessages :
          /\ results' = Append(results, Caught(NewResult(CurrentRequest), message))
          /\ replies' = Append(replies, [kind |-> "error", message |-> message])
    /\ context' = Bind(context, CurrentRequest, Null)
    /\ idx' = idx + 1 /\ pc' = "loop"
    /\ UNCHANGED <<collection, options, interpolated, sent, penv, tplVars, asrtVars, funVars, concVars>>

\* client.request rejects: the catch block, then results.push
DispatchFails ==
    /\ pc = "await"
    /\ \E message \in ErrorMessages :
          /\ results' = Append(results, Caught(NewResult(CurrentRequest), message))
          /\ replies' = Append(replies, [kind |-> "error", message |-> message])
    /\ idx' = idx + 1 /\ pc' = "loop"
    /\ UNCHANGED <<collection, options, context, interpolated, sent, penv, tplVars, asrtVars, funVars, concVars>>

\* return results
Return ==
    /\ pc = "loop" /\ idx > Len(RequestsOf(collection))
    /\ pc' = "done"
    /\ UNCHANGED <<collection, options, idx, context, results, interpolated, sent, replies,
                   penv, tplVars, asrtVars, funVars, concVars>>

Next == Dispatch \/ Respond \/ DispatchFails \/ Return

Spec == Init /\ [][Next]_vars

SpecEdge == InitEdge /\ [][Next]_vars

\* weak fairness of Dispatch, WF_vars(Dispatch), with ENABLED <<Dispatch>>_vars
\* written out as the guard of Dispatch and <<Dispatch>>_vars as what a step
\* of Dispatch changes
DispatchFair ==
    \/ []<>~(pc = "loop" /\ idx <= Len(RequestsOf(collection)))
    \/ []<><<(pc = "loop" /\ idx' # idx) \/ (pc = "loop" /\ pc' = "await")>>_vars

\* runCollection on an event loop that keeps running it while it is not
\* suspended, with a client whose every call of request eventually resolves
\* or rejects
SpecLive ==
    /\ Init /\ [][Next]_vars
    /\ DispatchFair /\ WF_vars(Return)
    /\ WF_vars(DispatchFails \/ Respond)

-----------------------------------------------------------------------------
(* Two calls of runCollection in progress at once.  A call runs until its  *)
(* await and the other call may run before it resumes.  Each call creates  *)
(* its context object when it starts: heap[a] is the object at address a.  *)

RunIds == {1, 2}

\* a context object shared by every call
ContextShared(r) == 1

\* the address of the object that const context = { env } creates in call r
ContextOf(r) == r

ConcOptions == [env |-> Obj(<<>>), baseUrl |-> <<>>]

ConcCollections ==
    { Obj(<< <<K("name"), S("suite")>>, <<K("requests"), Arr(rs)>> >>) :
        rs \in { <<Request("plain", "login"), Request("chained", "profile")>>,
                 <<Request("chained", "profile")>>,
                 <<Request("plain", "login")>> } }

InitConc ==
    /\ runs \in [RunIds -> { [collection |-> c, idx |-> 1, pc |-> "loop", results |-> <<>>,
                               interpolated |-> Undef, sent |-> <<>>, replies |-> <<>>] :
                             c \in ConcCollections }]
    /\ heap = [a \in RunIds |-> Obj(<< <<K("env"), ConcOptions.env>> >>)]
    /\ penv = Obj(<<>>)
    /\ TemplateOff /\ RunOff /\ AssertOff /\ FunOff

RequestOf(r) == RequestsOf(runs[r].collection)[runs[r].idx]

\* call r: a round of the loop up to the await
ConcDispatch(r) ==
    /\ runs[r].pc = "loop" /\ runs[r].idx <= Len(RequestsOf(runs[r].collection))
    /\ \E interp \in {interpolateObject(RequestOf(r), heap[ContextOf(r)], penv)} :
       \E built \in {BuildUrl(interp, ConcOptions.baseUrl, heap[ContextOf(r)], penv)} :
           runs' = [runs EXCEPT ![r] =
                      IF built.threw
                      THEN [@ EXCEPT !.interpolated = interp,
                                     !.results = Append(@, Caught(NewResult(RequestOf(r)),
                                                                  TypeErrorMessage)),
                                     !.replies = Append(@, [kind |-> "threw"]),
                                     !.idx = @ + 1]
                      ELSE [@ EXCEPT !.interpolated = interp,
                                     !.sent = Append(@, Call(interp, built.url, runs[r].idx)),
                                     !.pc = "await"]]
    /\ UNCHANGED <<heap, penv, tplVars, runVars, asrtVars, funVars>>

\* call r: client.request resolves
ConcRespond(r) ==
    /\ runs[r].pc = "await"
    /\ runs[r].sent[Len(runs[r].sent)].url.t = "str"
    /\ \E reply \in ServerReplies :
       \E response \in {ResponseRecord(reply, runs[r].sent[Len(runs[r].sent)])} :
          /\ heap' = [heap EXCEPT ![ContextOf(r)] = Bind(@, RequestOf(r), response)]
          /\ runs' = [runs EXCEPT ![r] =
                        [@ EXCEPT !.results = Append(@, AfterResponse(NewResult(RequestOf(r)),
                                                        response, runs[r].interpolated)),
                                  !.replies = Append(@, [kind |-> "response",
                                                         response |-> response]),
                                  !.idx = @ + 1, !.pc = "loop"]]
    /\ UNCHANGED <<penv, tplVars, runVars, asrtVars, funVars>>

\* call r: client.request rejects
ConcDispatchFails(r) ==
    /\ runs[r].pc = "await"
    /\ \E message \in ErrorMessages :
          runs' = [runs EXCEPT ![r] =
                     [@ EXCEPT !.results = Append(@, Caught(NewResult(RequestOf(r)), message)),
                               !.replies = Append(@, [kind |-> "error", message |-> message]),
                               !.idx = @ + 1, !.pc = "loop"]]
    /\ UNCHANGED <<heap, penv, tplVars, runVars, asrtVars, funVars>>

\* call r: return results
ConcReturn(r) ==
    /\ runs[r].pc = "loop" /\ runs[r].idx > Len(RequestsOf(runs[r].collection))
    /\ runs' = [runs EXCEPT ![r] = [@ EXCEPT !.pc = "done"]]
    /\ UNCHANGED <<heap, penv, tplVars, runVars, asrtVars, funVars>>

NextConc ==
    \E r \in RunIds :
        ConcDispatch(r) \/ ConcRespond(r) \/ ConcDispatchFails(r) \/ ConcReturn(r)

SpecConc == InitConc /\ [][NextConc]_vars

-----------------------------------------------------------------------------
(* commands/test.js and commands/collection.js: the exit code of the test  *)
(* and collection run commands, given what loading the files, running the  *)
(* collection and writing the report did.                                  *)

\* results.every(r => r.passed)
EveryPassed(rs) == \A i \in 1..Len(rs) : rs[i].passed

\* a formatTestResults that reports success when some result passed
formatTestResultsSome(rs) == \E i \in 1..Len(rs) : rs[i].passed

\* formatTestResults(results): failed === 0
formatTestResults(rs) == Cardinality({i \in 1..Len(rs) : ~rs[i].passed}) = 0

\* the action of the test command: the code process.exit is called with
TestExit(a) ==
    IF ~a.found THEN 1
    ELSE IF a.raises # "none" THEN 1
    ELSE IF a.pdf = "fails" THEN 1
    ELSE IF a.json THEN (IF EveryPassed(a.results) THEN 0 ELSE 1)
    ELSE (IF formatTestResults(a.results) THEN 0 ELSE 1)

\* the action of the collection run command
RunExit(a) ==
    IF ~a.found THEN 1
    ELSE IF a.raises # "none" THEN 1
    ELSE (IF formatTestResults(a.results) THEN 0 ELSE 1)

\* the results runCollection can return
RunResults ==
    UNION { [1..n -> { [NewResult(Request("plain", "login")) EXCEPT !.passed = b] :
                          b \in BOOLEAN }] : n \in 0..MaxReqs }

\* found: the collection file exists; raises: whether parsing the files
\* ("load") or runCollection ("run") raised; pdf: no report asked for, or the
\* report written, or generatePDFReport raised
CommandRuns ==
    [command : {"test"}, found : BOOLEAN, raises : {"none", "load", "run"},
     json : BOOLEAN, pdf : {"no", "written", "fails"}, results : RunResults]
    \cup
    [command : {"run"}, found : BOOLEAN, raises : {"none", "load", "run"},
     json : {FALSE}, pdf : {"no"}, results : RunResults]

InitCommand ==
    /\ fargs \in CommandRuns
    /\ fret = Undef /\ fpc = "in"
    /\ penv = Obj(<<>>)
    /\ TemplateOff /\ RunOff /\ AssertOff /\ ConcOff

TestCommand ==
    /\ fpc = "in" /\ fargs.command = "test"
    /\ fret' = TestExit(fargs)
    /\ fpc' = "ran"
    /\ UNCHANGED <<fargs, penv, tplVars, runVars, asrtVars, concVars>>

CollectionRunCommand ==
    /\ fpc = "in" /\ fargs.command = "run"
    /\ fret' = RunExit(fargs)
    /\ fpc' = "ran"
    /\ UNCHANGED <<fargs, penv, tplVars, runVars, asrtVars, concVars>>

NextCommand == TestCommand \/ CollectionRunCommand

SpecCommand == InitCommand /\ [][NextCommand]_vars

-----------------------------------------------------------------------------
(* Properties of interpolate *)

IsEnvPh(g) == g.ph /\ StartsWithEnv(g.path)

\* the text is made of plain text and of well-formed placeholders that satisfy P
MadeOf(gs, P(_)) ==
    \A i \in 1..Len(gs) : gs[i] \in PlainText \/ (gs[i] \in Placeholders /\ P(gs[i]))

\* the text of an environment placeholder once the variable it names is
\* looked up: the value when the variable is defined, else the placeholder
EnvLookedUp(g, env) ==
    LET name == SubSeq(g.path, 3, Len(g.path)) IN
    IF HasKey(env, name) THEN GetProp(env, name).v ELSE SegText(g)

RECURSIVE EnvExpected(_, _)
EnvExpected(gs, env) ==
    IF gs = <<>> THEN <<>>
    ELSE (IF Head(gs).ph THEN EnvLookedUp(Head(gs), env) ELSE SegText(Head(gs)))
         \o EnvExpected(Tail(gs), env)

\* C7: a placeholder whose trimmed path starts with env. becomes the value of
\* the process environment variable named by the rest of the path when that
\* variable is defined, and stays as its original text exactly when the
\* variable is undefined.
C7_EnvLookup ==
    (tpc # "in" /\ MadeOf(segs, IsEnvPh)) => out = EnvExpected(segs, penv)

\* a placeholder that is not an environment placeholder, and what its path
\* resolves to in the context
IsCtxPh(g) == g.ph /\ ~StartsWithEnv(g.path)
Resolved(g, c) == tplGetNestedValue(c, g.path)

RECURSIVE CtxExpected(_, _)
CtxExpected(gs, c) ==
    IF gs = <<>> THEN <<>>
    ELSE (IF Head(gs).ph /\ Resolved(Head(gs), c) # Undef
          THEN ToText(Resolved(Head(gs), c))
          ELSE SegText(Head(gs)))
         \o CtxExpected(Tail(gs), c)

\* C8: in a text of plain text and placeholders, every placeholder whose path
\* resolves to undefined is left as its original text, inner white space
\* included, and every other placeholder of the same text is replaced by the
\* text of its value.
C8_UnresolvedKept ==
    (tpc # "in" /\ MadeOf(segs, IsCtxPh)) => out = CtxExpected(segs, ctx)

\* an out-of-range index left verbatim, white space and all, beside a
\* placeholder that is replaced
C8_Witness ==
    /\ tpc = "once" /\ ctx = UserCtx /\ Len(segs) = 2
    /\ segs[1] = Ph(<<" ">>, <<"missing", ".", "a">>, <<>>)
    /\ segs[2] = Ph(<<" ">>, <<"a">>, <<" ", " ">>)
    /\ out = SegText(segs[1]) \o <<"one">>

\* C9 as claimed: with the empty context, interpolating the result of
\* interpolate again changes nothing, for every text.
C9_Idempotent == (tpc = "twice" /\ ctx = EmptyCtx) => out2 = out

NoBraceInEnv(env) ==
    \A i \in 1..Len(env.v) : \A j \in 1..Len(env.v[i][2].v) : env.v[i][2].v[j] # "{"

\* C9 as amended: with the empty context, interpolating the result of
\* interpolate again changes nothing, for every text, provided no value of a
\* process environment variable holds an opening brace.
C9_IdempotentCleanEnv ==
    (tpc = "twice" /\ ctx = EmptyCtx /\ NoBraceInEnv(penv)) => out2 = out

\* an environment placeholder replaced and an unresolved one kept, twice over
C9_Witness ==
    /\ tpc = "twice" /\ ctx = EmptyCtx /\ NoBraceInEnv(penv) /\ Len(segs) = 2
    /\ segs[1] = Ph(<<>>, <<"env", ".", "A">>, <<>>)
    /\ segs[2] = Ph(<<>>, <<"missing">>, <<>>)
    /\ out = <<"v">> \o SegText(segs[2])
    /\ out2 = out

-----------------------------------------------------------------------------
(* Properties of runAssertions *)

\* the entry was evaluated by evaluateOperators and names an operator that
\* evaluateOperators does not know
HasUnknownOperator(r) ==
    /\ r.expected.t = "obj"
    /\ r.path # K("status")
    /\ \E i \in 1..Len(r.expected.v) :
          \A name \in OperatorNames : r.expected.v[i][1] # K(name)

\* C10: runAssertions returns a sequence of results and never raises, for
\* every response and every assertion map, and an entry with an unrecognized
\* operator has passed = false.
C10_NeverThrows ==
    apc = "ran" =>
        /\ ~aout.threw
        /\ \A i \in 1..Len(aout.results) :
              HasUnknownOperator(aout.results[i]) => aout.results[i].passed = Bool(FALSE)

-----------------------------------------------------------------------------
(* Properties of runCollection *)

NameOf(request) == GetProp(request, K("name")).v

KindOf(request) ==
    CHOOSE kind \in RequestKinds : \E name \in RequestNames : request = Request(kind, name)

\* round i ended with a response: its dispatch succeeded
Succeeded(i) == replies[i].kind = "response"

UniqueNames ==
    \A a, b \in 1..Len(RequestsOf(collection)) :
        a # b => NameOf(RequestsOf(collection)[a]) # NameOf(RequestsOf(collection)[b])

\* the url a declared url text is dispatched as: baseUrl goes in front of it
\* unless it starts with http
WithBase(url) ==
    IF options.baseUrl # <<>> /\ ~StartsWithHttp(url) THEN options.baseUrl \o url ELSE url

\* every declared string field of the call that A selects is dispatched as the
\* text T gives for it; the body is only dispatched when there is no json
DispatchedAs(call, kind, A(_), T(_)) ==
    /\ (UrlSegs(kind) # <<>> /\ A(UrlSegs(kind))) =>
            call.url = Str(WithBase(T(UrlSegs(kind))))
    /\ (AuthSegs(kind) # <<>> /\ A(AuthSegs(kind))) =>
            GetProp(call.headers, K("Authorization")) = Str(T(AuthSegs(kind)))
    /\ (XEnvSegs(kind) # <<>> /\ A(XEnvSegs(kind))) =>
            GetProp(call.headers, K("X-Env")) = Str(T(XEnvSegs(kind)))
    /\ (JsonSegs(kind) # <<>> /\ A(JsonSegs(kind))) =>
            GetProp(call.json, K("user")) = Str(T(JsonSegs(kind)))
    /\ (BodySegs(kind) # <<>> /\ JsonSegs(kind) = <<>> /\ A(BodySegs(kind))) =>
            call.body = Str(T(BodySegs(kind)))

\* C1: when runCollection returns there is exactly one result per request,
\* and the i-th result carries the name of the i-th request, whatever the
\* outcome of each request was.
C1_OneResultPerRequest ==
    pc = "done" =>
        /\ Len(results) = Len(RequestsOf(collection))
        /\ \A i \in 1..Len(results) :
              results[i].name = GetProp(RequestsOf(collection)[i], K("name"))

\* a failed assertion followed by a dispatch error, under two names
C1_Witness ==
    /\ pc = "done" /\ Len(results) = 2
    /\ results[1].name = S("login") /\ results[2].name = S("profile")
    /\ Succeeded(1) /\ Len(results[1].assertions) = 1 /\ ~results[1].passed
    /\ replies[2].kind = "error"

\* C2: an error raised by client.request for request i is caught: result i has
\* the message of the error, passed = false and no response, the run never
\* ends by raising, and when it returns every request has had its round,
\* with a call of client.request for each round that built its url.
C2_ErrorCaught ==
    /\ pc # "threw"
    /\ \A i \in 1..Len(replies) :
          replies[i].kind = "error" =>
              /\ results[i].error = Str(replies[i].message)
              /\ results[i].passed = FALSE
              /\ results[i].response = Null
    /\ pc = "done" =>
          \A j \in 1..Len(RequestsOf(collection)) :
              /\ j <= Len(replies)
              /\ replies[j].kind # "threw" => \E k \in 1..Len(sent) : sent[k].round = j

\* the first request fails to dispatch, the second is dispatched and answered
C2_Witness ==
    /\ pc = "done" /\ Len(replies) = 2
    /\ replies[1].kind = "error" /\ results[1].error = Str(replies[1].message)
    /\ Len(sent) = 2 /\ sent[2].round = 2 /\ Succeeded(2) /\ results[2].passed

\* a placeholder name.response.path
IsChainPh(g) ==
    /\ g.ph /\ Len(g.path) >= 5
    /\ g.path[2] = "." /\ g.path[3] = "response" /\ g.path[4] = "."

RefersTo(g, request) == IsChainPh(g) /\ <<g.path[1]>> = NameOf(request)

\* the value at the path of the placeholder in the response recorded for round i
ChainValue(g, i) == getNestedValue(results[i].response, SubSeq(g.path, 5, Len(g.path)))

\* the text has placeholders, all of them referring to the response of round i
\* at a path where a value is defined
Chained(gs, i) ==
    /\ \E n \in 1..Len(gs) : gs[n].ph
    /\ \A n \in 1..Len(gs) :
          gs[n].ph => /\ RefersTo(gs[n], RequestsOf(collection)[i])
                      /\ ChainValue(gs[n], i) # Undef

RECURSIVE ChainText(_, _)
ChainText(gs, i) ==
    IF gs = <<>> THEN <<>>
    ELSE (IF Head(gs).ph THEN ToText(ChainValue(Head(gs), i)) ELSE SegText(Head(gs)))
         \o ChainText(Tail(gs), i)

\* C3: in the call dispatched for request j, every placeholder
\* name_i.response.path of the url, the headers, the json and the body, where
\* request i is an earlier request whose dispatch succeeded, stands replaced
\* by the text of the value at that path in the response recorded for i,
\* when that value is defined.
C3_Chaining ==
    \A k \in 1..Len(sent) : \A i \in 1..(sent[k].round - 1) :
        Succeeded(i) =>
            DispatchedAs(sent[k], KindOf(RequestsOf(collection)[sent[k].round]),
                         LAMBDA gs : Chained(gs, i), LAMBDA gs : ChainText(gs, i))

\* the text has placeholders, all of them referring to the response of round i
Unbound(gs, i) ==
    /\ \E n \in 1..Len(gs) : gs[n].ph
    /\ \A n \in 1..Len(gs) : gs[n].ph => RefersTo(gs[n], RequestsOf(collection)[i])

\* C4: when the dispatch of request i fails its name is not bound in the
\* context and, the names of the requests being unique, every later
\* placeholder that refers to the response of i is dispatched as its
\* original text.
C4_FailedNotBound ==
    \A i \in 1..Len(replies) :
        (~Succeeded(i) /\ UniqueNames) =>
            /\ ~HasKey(context, NameOf(RequestsOf(collection)[i]))
            /\ \A k \in 1..Len(sent) :
                  sent[k].round > i =>
                      DispatchedAs(sent[k], KindOf(RequestsOf(collection)[sent[k].round]),
                                   LAMBDA gs : Unbound(gs, i), Flatten)

\* login fails to dispatch and the placeholders of profile go out verbatim
C4_Witness ==
    /\ Len(replies) >= 1 /\ replies[1].kind = "error" /\ UniqueNames
    /\ RequestsOf(collection)[1] = Request("plain", "login") /\ Len(sent) = 2
    /\ RequestsOf(collection)[2] = Request("chained", "profile")
    /\ sent[2].url = Str(WithBase(<<"/u/">> \o SegText(TokenPh)))
    /\ GetProp(sent[2].headers, K("Authorization")) = Str(<<"Bearer", " ">> \o SegText(TokenPh))
    /\ GetProp(sent[2].json, K("user")) = Str(SegText(IdPh))

\* C5: the result of a request whose dispatch succeeded has passed = true
\* exactly when either the request has an assert and every assertion result
\* passed, or it has none and the status is in [200, 400); the result of a
\* request whose dispatch failed has passed = false.
C5_PassedIff ==
    \A i \in 1..Len(results) :
        LET request == RequestsOf(collection)[i]
            r == results[i]
        IN  IF Succeeded(i)
            THEN r.passed <=>
                   \/ /\ HasKey(request, K("assert"))
                      /\ \A n \in 1..Len(r.assertions) : r.assertions[n].passed = Bool(TRUE)
                   \/ /\ ~HasKey(request, K("assert"))
                      /\ GetProp(r.response, K("status")).v >= 200
                      /\ GetProp(r.response, K("status")).v < 400
            ELSE r.passed = FALSE

\* the text has placeholders, all of them env.NAME with NAME defined in
\* options.env
FromOptions(gs) ==
    /\ \E n \in 1..Len(gs) : gs[n].ph
    /\ \A n \in 1..Len(gs) :
          gs[n].ph => /\ StartsWithEnv(gs[n].path)
                      /\ HasKey(options.env, SubSeq(gs[n].path, 3, Len(gs[n].path)))

\* C6: a placeholder env.NAME of a request, with NAME defined in options.env,
\* is dispatched as the value options.env gives to NAME.
C6_EnvFromOptions ==
    \A k \in 1..Len(sent) :
        DispatchedAs(sent[k], KindOf(RequestsOf(collection)[sent[k].round]),
                     FromOptions, LAMBDA gs : EnvExpected(gs, options.env))

-----------------------------------------------------------------------------
(* Properties of evaluateOperators *)

\* what an operator entry asks of the actual value
OperatorHolds(op, actual, value) ==
    CASE op = K("eq") -> StrictEq(actual, value)
      [] op = K("ne") -> ~StrictEq(actual, value)
      [] op = K("gt") -> Less(value, actual)
      [] op = K("gte") -> LessEq(value, actual)
      [] op = K("lt") -> Less(actual, value)
      [] op = K("lte") -> LessEq(actual, value)
      [] op = K("contains") ->
            \/ actual.t = "str" /\ IsSubText(ToText(value), actual.v)
            \/ actual.t = "arr" /\ \E i \in 1..Len(actual.v) : StrictEq(actual.v[i], value)
      [] op = K("exists") -> Truthy(value) <=> actual # Undef
      [] OTHER -> FALSE

\* C11: evaluateOperators returns the conjunction of the entries of the
\* operator object: true exactly when every entry holds of the actual value,
\* and false when a key is none of eq, ne, gt, gte, lt, lte, contains, exists.
C11_Conjunction ==
    fpc = "ran" =>
        /\ ~fret.threw
        /\ fret.val = \A i \in 1..Len(fargs.expected.v) :
                          OperatorHolds(fargs.expected.v[i][1], fargs.actual,
                                        fargs.expected.v[i][2])

-----------------------------------------------------------------------------
(* Properties of runAssertions, continued *)

\* the target paths runAssertions knows
Recognized(path) ==
    \/ path = K("status") \/ path = K("responseTime")
    \/ StartsWith(path, <<"headers", ".">>) \/ StartsWith(path, <<"body", ".">>)

RecognizedEntry(e) == Recognized(e[1])

\* C12: the sequence runAssertions returns has one result for each entry of
\* the assertion map with a recognized path (status, responseTime, headers.*,
\* body.*), in the order of the map, and nothing for any other entry.
C12_RecognizedInOrder ==
    (apc = "ran" /\ ~aout.threw) =>
        LET entries == SelectSeq(amap.v, RecognizedEntry) IN
        /\ Len(aout.results) = Len(entries)
        /\ \A i \in 1..Len(entries) :
              /\ aout.results[i].path = entries[i][1]
              /\ aout.results[i].expected = entries[i][2]

\* an entry with another path is passed over, the recognized one after it
\* gives the only result
C12_Witness ==
    /\ apc = "ran" /\ ~aout.threw /\ Len(amap.v) = 2
    /\ amap.v[1][1] = K("foo") /\ amap.v[2][1] = BodyPath("count")
    /\ Len(aout.results) = 1 /\ aout.results[1].path = BodyPath("count")

\* deep structural equality: sequences are equal when they have the same
\* length and equal elements in order, mappings when they have the same keys
\* and equal values, and a sequence never equals a mapping
RECURSIVE StructEq(_, _)
StructEq(a, b) ==
    CASE a.t = "arr" /\ b.t = "arr" ->
            Len(a.v) = Len(b.v) /\ \A i \in 1..Len(a.v) : StructEq(a.v[i], b.v[i])
      [] a.t = "obj" /\ b.t = "obj" ->
            Keys(a) = Keys(b) /\ \A k \in Keys(a) : StructEq(GetProp(a, k), GetProp(b, k))
      [] OTHER -> a = b

\* C13: the result of a body.* entry whose expectation is a scalar, null or
\* an array has passed = the deep structural equality of the value at the
\* path in response.body and the expectation.
C13_DeepEquality ==
    (apc = "ran" /\ ~aout.threw) =>
        \A i \in 1..Len(aout.results) :
            LET r == aout.results[i] IN
            (StartsWith(r.path, <<"body", ".">>) /\ r.expected.t # "obj") =>
                /\ r.actual = getNestedValue(GetProp(aresp, K("body")),
                                             SubSeq(r.path, 3, Len(r.path)))
                /\ r.passed = Bool(StructEq(r.actual, r.expected))

\* C14: the result of a headers.NAME entry has actual = the header under the
\* lower-cased NAME; with a string expectation passed is true when the header
\* equals the expectation or contains it, and false otherwise, also when the
\* header is absent; with an operator object passed is what evaluateOperators
\* gives.
C14_HeaderAssertion ==
    (apc = "ran" /\ ~aout.threw) =>
        \A i \in 1..Len(aout.results) :
            LET r == aout.results[i]
                header == GetProp(GetProp(aresp, K("headers")),
                                  ToLowerCase(SubSeq(r.path, 3, Len(r.path))))
            IN  StartsWith(r.path, <<"headers", ".">>) =>
                    /\ r.actual = header
                    /\ r.expected.t = "str" =>
                          r.passed = Bool(/\ header.t = "str"
                                          /\ IsSubText(r.expected.v, header.v))
                    /\ r.expected.t = "obj" =>
                          r.passed = Bool(evaluateOperators(header, r.expected).val)

-----------------------------------------------------------------------------
(* Properties of the commands *)

\* the run came back with results: the files were loaded and runCollection
\* returned
RunReturned == fargs.found /\ fargs.raises = "none"

\* C15 as claimed: the commands exit with 0 exactly when the run returned and
\* every result has passed = true, and with 1 otherwise.
C15_ExitCode ==
    fpc = "ran" =>
        /\ fret \in {0, 1}
        /\ fret = 0 <=> (RunReturned /\ \A i \in 1..Len(fargs.results) : fargs.results[i].passed)

\* C15 as amended: the commands exit with 0 exactly when the run returned,
\* every result has passed = true and writing the report, if one was asked
\* for, did not raise; and with 1 otherwise.
C15_ExitCodeReport ==
    fpc = "ran" =>
        /\ fret \in {0, 1}
        /\ fret = 0 <=> /\ RunReturned
                        /\ fargs.pdf # "fails"
                        /\ \A i \in 1..Len(fargs.results) : fargs.results[i].passed

\* a test run without --json whose second result failed exits with 1
C15_Witness ==
    /\ fpc = "ran" /\ fargs.command = "test" /\ RunReturned /\ ~fargs.json
    /\ fargs.pdf = "written" /\ Len(fargs.results) = 2
    /\ fargs.results[1].passed /\ ~fargs.results[2].passed
    /\ fret = 1

-----------------------------------------------------------------------------
(* Properties of two calls of runCollection at once *)

\* the context call r has built by itself when it starts round j: env and the
\* responses of its own rounds before j, bound in order
RECURSIVE OwnContext(_, _)
OwnContext(r, j) ==
    IF j <= 1 THEN Obj(<< <<K("env"), ConcOptions.env>> >>)
    ELSE IF runs[r].replies[j - 1].kind = "response"
         THEN Bind(OwnContext(r, j - 1), RequestsOf(runs[r].collection)[j - 1],
                   runs[r].replies[j - 1].response)
         ELSE OwnContext(r, j - 1)

\* C16: each of two calls of runCollection in progress at once has a context
\* of its own: the context a call interpolates against holds env and the
\* responses of its own requests only, and every request it dispatches is
\* the request interpolated against those, whatever the other call has bound
\* under the same names.
C16_OwnContext ==
    \A r \in RunIds :
        /\ heap[ContextOf(r)] = OwnContext(r, Len(runs[r].replies) + 1)
        /\ \A k \in 1..Len(runs[r].sent) :
              LET j == runs[r].sent[k].round
                  interp == interpolateObject(RequestsOf(runs[r].collection)[j],
                                              OwnContext(r, j), penv)
              IN  runs[r].sent[k] =
                      Call(interp, BuildUrl(interp, ConcOptions.baseUrl,
                                            OwnContext(r, j), penv).url, j)

\* call 1 has bound login; call 2, which has no login of its own, dispatches
\* its placeholder as it stands, and call 1 dispatches its own token
C16_Witness ==
    /\ Len(runs[1].replies) >= 1 /\ runs[1].replies[1].kind = "response"
    /\ HasKey(heap[ContextOf(1)], K("login"))
    /\ runs[2].collection = Obj(<< <<K("name"), S("suite")>>,
                                   <<K("requests"), Arr(<<Request("chained", "profile")>>)>> >>)
    /\ Len(runs[2].sent) = 1 /\ Len(runs[1].sent) = 2
    /\ runs[2].sent[1].url = Str(<<"/u/">> \o SegText(TokenPh))
    /\ runs[1].sent[2].url = Str(<<"/u/", "abc">>)
    /\ ~HasKey(heap[ContextOf(2)], K("login"))

-----------------------------------------------------------------------------
(* Properties of runCollection: order of the rounds *)

\* the calls of client.request that have neither resolved nor rejected yet
InFlight == { k \in 1..Len(sent) : sent[k].round > Len(results) }

\* C17: within one run at most one request is in flight at any time, and
\* the request of round i + 1 is interpolated and dispatched only after the
\* results of rounds 1..i have been appended: every dispatched call belongs
\* to a round no later than the one after the last appended result, the
\* calls were dispatched in the order of the rounds, and a call is in flight
\* exactly while the run is suspended at its await.
C17_OneInFlight ==
    /\ Cardinality(InFlight) <= 1
    /\ \A k \in 1..Len(sent) : sent[k].round <= Len(results) + 1
    /\ \A k, l \in 1..Len(sent) : k < l => sent[k].round < sent[l].round
    /\ (pc = "await") = (InFlight # {})
    /\ pc = "await" => /\ sent[Len(sent)].round = idx /\ idx = Len(results) + 1
                       /\ interpolated = interpolateObject(CurrentRequest, context, penv)

\* the second request is in flight and the result of the first is appended
C17_Witness ==
    /\ pc = "await" /\ Len(sent) = 2 /\ Len(results) = 1
    /\ InFlight = {2} /\ sent[2].round = 2

\* the names of the requests among the first k whose dispatch succeeded
BoundNames(k) ==
    { NameOf(RequestsOf(collection)[i]) : i \in { i \in 1..k : Succeeded(i) } }

\* the key set of the context once Len(results) requests have been processed
KeysAsBound ==
    /\ Len(replies) = Len(results)
    /\ Keys(context) = {K("env")} \cup BoundNames(Len(results))

\* C18: the key set of the context only grows during a run: it is {env} at
\* the start and, once k requests have been processed, it is exactly env
\* together with the names of the requests among the first k whose dispatch
\* succeeded; no step of the run removes a key.
C18_KeysGrow ==
    /\ [](Len(results) = 0 => Keys(context) = {K("env")})
    /\ []KeysAsBound
    /\ [][Keys(context) \subseteq Keys(context')]_vars

\* two requests processed, the first failed and the second succeeded
C18_Witness ==
    /\ Len(results) = 2 /\ ~Succeeded(1) /\ Succeeded(2)
    /\ Cardinality(Keys(context)) = 2

\* in every dispatched call the placeholders that refer to the request of the
\* call itself, or to a request declared after it, are dispatched as their
\* original text
OnlyEarlier ==
    \A k \in 1..Len(sent) :
        \A i \in sent[k].round..Len(RequestsOf(collection)) :
            DispatchedAs(sent[k], KindOf(RequestsOf(collection)[sent[k].round]),
                         LAMBDA gs : Unbound(gs, i), Flatten)

\* C19 as claimed: when request j is dispatched, every placeholder in it that
\* refers to request j itself or to a request declared after j is still the
\* unresolved placeholder text.
C19_OnlyEarlier == OnlyEarlier

\* C19, amended: the same, the names of the requests being unique within the
\* run.
C19_OnlyEarlierUnique == UniqueNames => OnlyEarlier

\* profile succeeded; the second request, login, refers to its own response
\* and is dispatched with the placeholder text in its url
C19_Witness ==
    /\ UniqueNames /\ options.baseUrl = <<>>
    /\ Len(RequestsOf(collection)) = 2
    /\ Len(replies) >= 1 /\ Succeeded(1)
    /\ RequestsOf(collection)[2] = Request("chained", "login")
    /\ Len(sent) = 2 /\ sent[2].round = 2
    /\ sent[2].url = Str(<<"/u/">> \o SegText(TokenPh))

-----------------------------------------------------------------------------
(* Properties of getNestedValue *)

\* C20: for every data value and every path, getNestedValue of template.js
\* returns what getNestedValue of utils returns, also when an intermediate
\* value is falsy but present (0, false, the empty string).
C20_SameResolver == fpc = "ran" => fret.template = fret.utils

\* the two functions differ only where a falsy value that is neither null nor
\* undefined is met before the last part of the path
DifferOnFalsyOnly ==
    (fpc = "ran" /\ fret.template # fret.utils) =>
        /\ fret.template = Undef
        /\ \/ fargs.obj \in {Str(<<>>), Num(0)}
           \/ \E i \in 1..Len(fargs.obj.v) : fargs.obj.v[i][2] \in {Str(<<>>), Num(0), Bool(FALSE)}
           \/ \E i \in 1..Len(fargs.obj.v) :
                 fargs.obj.v[i][2].t = "arr" /\ Str(<<>>) \in { fargs.obj.v[i][2].v[j] :
                                                                j \in 1..Len(fargs.obj.v[i][2].v) }

\* the value the Path Resolver reaches after the first n parts of the path
Reached(n) == WalkStrict(fargs.obj, SubSeq(Split(fargs.path), 1, n), 1)

\* part n of the path is name[index] and the member name of the value reached
\* before it is not a sequence
IndexesNonSequence(n) ==
    LET part == Split(fargs.path)[n]
        at == ArrayMatch(part)
    IN  /\ at > 0 /\ ~IsAbsent(Reached(n - 1))
        /\ ~IsArray(GetProp(Reached(n - 1), SubSeq(part, 1, at - 1)))

\* C21: the Path Resolver (getNestedValue of utils) never raises, for every
\* root value and path; it returns undefined when the root or an intermediate
\* value is null or undefined before the path is consumed, and when a part
\* name[n] is applied to a value whose member name is not a sequence.
C21_FailsSoft ==
    fpc = "ran" =>
        /\ ~fret.raised
        /\ (\E n \in 0..(Len(Split(fargs.path)) - 1) : IsAbsent(Reached(n)))
               => fret.utils = Undef
        /\ (\E n \in 1..Len(Split(fargs.path)) : IndexesNonSequence(n))
               => fret.utils = Undef

\* an intermediate null stops the walk, and so does an index into a string
C21_Witness ==
    /\ fpc = "ran" /\ fret.utils = Undef /\ ~fret.raised
    /\ \/ /\ fargs.path = <<"u", ".", "x">>
          /\ GetProp(fargs.obj, K("u")) = Null
       \/ /\ fargs.path = <<"a", "[", "0", "]">>
          /\ GetProp(fargs.obj, K("a")) = S("x")

-----------------------------------------------------------------------------
(* Properties of runCollection: the url and the fields of a dispatched call *)

\* the context of the run when round j starts: env and the responses of the
\* rounds before j, bound in order
RECURSIVE ContextAt(_)
ContextAt(j) ==
    IF j <= 1 THEN Obj(<< <<K("env"), options.env>> >>)
    ELSE IF Succeeded(j - 1)
         THEN Bind(ContextAt(j - 1), RequestsOf(collection)[j - 1], replies[j - 1].response)
         ELSE ContextAt(j - 1)

\* interpolated.url of round j
InterpolatedUrl(j) ==
    GetProp(interpolateObject(RequestsOf(collection)[j], ContextAt(j), penv), K("url"))

\* C22: the url dispatched for a request is the interpolated url unchanged
\* when that begins with http, and otherwise options.baseUrl in front of the
\* interpolated url, the combined text interpolated again.
C22_EffectiveUrl ==
    \A k \in 1..Len(sent) :
        LET url == InterpolatedUrl(sent[k].round) IN
        url.t = "str" =>
            sent[k].url = IF StartsWithHttp(url.v) THEN url
                          ELSE interpolateObject(Str(options.baseUrl \o url.v),
                                                 ContextAt(sent[k].round), penv)

\* C22 for the urls that do not begin with http
EffectiveUrlRelative ==
    \A k \in 1..Len(sent) :
        LET url == InterpolatedUrl(sent[k].round) IN
        (url.t = "str" /\ ~StartsWithHttp(url.v)) =>
            sent[k].url = interpolateObject(Str(options.baseUrl \o url.v),
                                            ContextAt(sent[k].round), penv)

\* y has the shape of x: a string for a string, a sequence of the same length
\* with the shapes of the elements in order, a mapping with the same keys in
\* order and the shapes of the values, and x itself for any other value
RECURSIVE SameShape(_, _)
SameShape(x, y) ==
    CASE x.t = "str" -> y.t = "str"
      [] x.t = "arr" -> /\ y.t = "arr" /\ Len(y.v) = Len(x.v)
                        /\ \A i \in 1..Len(x.v) : SameShape(x.v[i], y.v[i])
      [] x.t = "obj" -> /\ y.t = "obj" /\ Len(y.v) = Len(x.v)
                        /\ \A i \in 1..Len(x.v) :
                              y.v[i][1] = x.v[i][1] /\ SameShape(x.v[i][2], y.v[i][2])
      [] OTHER -> y = x

\* the request that interpolated was made from
InterpolatedRequest == RequestsOf(collection)[IF pc = "await" THEN idx ELSE idx - 1]

-----------------------------------------------------------------------------
(* Properties of runCollection: termination *)

\* the calls of client.request made for request j
CallsFor(j) == { k \in 1..Len(sent) : sent[k].round = j }

\* every request has had its round, once: it has one result, and one call of
\* client.request unless its round raised before the call
AttemptedOnce ==
    /\ Len(results) = Len(RequestsOf(collection))
    /\ \A j \in 1..Len(RequestsOf(collection)) :
          /\ results[j].name = GetProp(RequestsOf(collection)[j], K("name"))
          /\ Cardinality(CallsFor(j)) = IF replies[j].kind = "threw" THEN 0 ELSE 1

\* C24: provided every dispatch eventually returns a response or raises,
\* runCollection eventually returns, having attempted every request of the
\* collection exactly once; and at no time has a request been dispatched
\* twice.
C24_Returns ==
    /\ <>(pc = "done" /\ AttemptedOnce)
    /\ [](\A j \in 1..Len(RequestsOf(collection)) : Cardinality(CallsFor(j)) <= 1)

\* returned after two requests, each dispatched once
C24_Witness ==
    /\ pc = "done" /\ Len(RequestsOf(collection)) = 2 /\ Len(sent) = 2
    /\ AttemptedOnce

-----------------------------------------------------------------------------
(* Properties of runAssertions: the fields of a result *)

\* C25: every result of runAssertions has passed equal to the boolean true or
\* the boolean false and a description that is not empty, for every
\* recognized path and every type of expectation.
C25_BooleanPassed ==
    (apc = "ran" /\ ~aout.threw) =>
        \A i \in 1..Len(aout.results) :
            /\ aout.results[i].passed.t = "bool"
            /\ aout.results[i].description # <<>>

\* C25 for the entries other than headers.*
BooleanPassedElsewhere ==
    (apc = "ran" /\ ~aout.threw) =>
        \A i \in 1..Len(aout.results) :
            ~StartsWith(aout.results[i].path, <<"headers", ".">>) =>
                /\ aout.results[i].passed.t = "bool"
                /\ aout.results[i].description # <<>>

-----------------------------------------------------------------------------
(* Properties of runCollection: results and bindings *)

\* the request has an assert map and none of its paths is recognized
NoRecognizedPath(request) ==
    /\ HasKey(request, K("assert"))
    /\ GetProp(request, K("assert")).t = "obj"
    /\ \A n \in 1..Len(GetProp(request, K("assert")).v) :
          ~Recognized(GetProp(request, K("assert")).v[n][1])

\* C26: when the dispatch succeeds and the assert map of the request is
\* present but gives no assertion result (an empty map, or only paths that
\* are not recognized), the result has passed = true and an empty assertions
\* list, whatever the status of the response.
C26_VacuousPass ==
    \A i \in 1..Len(results) :
        (Succeeded(i) /\ NoRecognizedPath(RequestsOf(collection)[i])) =>
            /\ results[i].passed = TRUE
            /\ results[i].assertions = <<>>
            /\ results[i].error = Null

\* a 404 answer to a request whose assert map has only unrecognized paths,
\* and to one whose assert map is empty
C26_Witness ==
    /\ Len(results) = 2
    /\ RequestsOf(collection) = <<Request("loose", "login"), Request("bare", "env")>>
    /\ Succeeded(1) /\ Succeeded(2)
    /\ GetProp(results[1].response, K("status")) = Num(404)
    /\ GetProp(results[2].response, K("status")) = Num(404)
    /\ results[1].passed /\ results[2].passed

\* C27: in every result of runCollection error is non-null exactly when
\* response is null, and when error is non-null the assertions list is empty.
C27_ErrorOrResponse ==
    \A i \in 1..Len(results) :
        /\ (results[i].error # Null) = (results[i].response = Null)
        /\ results[i].error # Null => results[i].assertions = <<>>

\* C27 for the rounds in which runAssertions did not raise
ErrorOrResponseUnlessRaised ==
    \A i \in 1..Len(results) :
        ~(Succeeded(i) /\ results[i].error # Null) =>
            /\ (results[i].error # Null) = (results[i].response = Null)
            /\ results[i].error # Null => results[i].assertions = <<>>

\* when error is non-null the assertions list is empty
ErrorMeansNoAssertions ==
    \A i \in 1..Len(results) : results[i].error # Null => results[i].assertions = <<>>

\* C28: the response is bound into the context when the dispatch succeeds,
\* before and whatever the evaluation of the assertions: a request whose
\* assertions fail or whose status is 4xx or 5xx (passed = false, error =
\* null) is bound under its name to that response until a later request of
\* the same name is bound, and a placeholder of a later request for the
\* status of its response is dispatched as that status.
C28_BoundWhateverPassed ==
    \A i \in 1..Len(results) :
        (Succeeded(i) /\ ~results[i].passed /\ results[i].error = Null) =>
            LET name == NameOf(RequestsOf(collection)[i]) IN
            /\ HasKey(context, name)
            /\ (\A j \in (i + 1)..Len(results) :
                    ~(Succeeded(j) /\ NameOf(RequestsOf(collection)[j]) = name))
                  => GetProp(context, name)
                        = Obj(<< <<K("response"), results[i].response>> >>)
            /\ \A k \in 1..Len(sent) :
                  (/\ sent[k].round = i + 1 /\ name = <<"login">>
                   /\ RequestsOf(collection)[i + 1] = Request("echo", "profile"))
                  => StartsWith(sent[k].url.v,
                                <<"http://api", "/x/">>
                                \o ToText(GetProp(results[i].response, K("status")))
                                \o <<"/">>)

\* login is answered 404 and its assertion fails; the next request is
\* dispatched with the status of that response in its url
C28_Witness ==
    /\ RequestsOf(collection) = <<Request("strict", "login"), Request("echo", "profile")>>
    /\ Len(results) >= 1 /\ Succeeded(1)
    /\ ~results[1].passed /\ results[1].error = Null
    /\ Len(results[1].assertions) = 1
    /\ Len(sent) = 2
    /\ sent[2].url = Str(<<"http://api", "/x/", "404", "/">> \o SegText(TokenPh))

\* round i is the first round that bound the name of its request
FirstBound(i) ==
    /\ Succeeded(i)
    /\ \A j \in 1..(i - 1) :
          ~(Succeeded(j) /\ NameOf(RequestsOf(collection)[j]) = NameOf(RequestsOf(collection)[i]))

\* env is options.env, and every bound name has the response it was first
\* bound to
ValuesKept ==
    /\ GetProp(context, K("env")) = options.env
    /\ \A i \in 1..Len(replies) :
          FirstBound(i) =>
              GetProp(context, NameOf(RequestsOf(collection)[i]))
                  = Obj(<< <<K("response"), replies[i].response>> >>)

\* C29: a key of the context keeps its value for the rest of the run: env is
\* options.env at every step and a bound request name keeps the response it
\* was first bound to, for every collection, also with requests that share a
\* name or a request named env.
C29_ValuesKept == ValuesKept

\* the same for the collections whose request names are unique and not env
ValuesKeptUniqueNames ==
    (/\ UniqueNames
     /\ \A i \in 1..Len(RequestsOf(collection)) :
           NameOf(RequestsOf(collection)[i]) # K("env"))
        => ValuesKept

-----------------------------------------------------------------------------
(* Properties of runCollection: one interpolation pass *)

\* the call of round j when every declared field gets one interpolation
\* pass: the fields of the interpolated request, baseUrl in front of its url
\* unless that begins with http
OnePassCall(j) ==
    LET interp == interpolateObject(RequestsOf(collection)[j], ContextAt(j), penv)
        url == GetProp(interp, K("url"))
    IN  Call(interp,
             IF url.t = "str" /\ options.baseUrl # <<>> /\ ~StartsWithHttp(url.v)
             THEN Str(options.baseUrl \o url.v) ELSE url,
             j)

\* C30: every string field of a dispatched request (the url, the header
\* values, the leaves of json, the body) is the result of exactly one
\* interpolation pass over the declared field: text that a resolved value
\* brought in is not expanded as a placeholder.
C30_OnePass ==
    \A k \in 1..Len(sent) : sent[k] = OnePassCall(sent[k].round)

\* C30 for the fields other than the url
OnePassButUrl ==
    \A k \in 1..Len(sent) :
        [sent[k] EXCEPT !.url = Undef] = [OnePassCall(sent[k].round) EXCEPT !.url = Undef]

====
